---- MODULE Spec2Model ----
(***************************************************************************)
(* A model of the Tekton lowering compiler of kfp-tekton                   *)
(* (sdk/python/kfp_tekton/compiler/compiler.py).                           *)
(*                                                                         *)
(* Text is modelled as a sequence of tokens.  A token is either a single   *)
(* character ("a", "A", "_", " ") or one of the fixed multi-character      *)
(* pieces of syntax the compiler searches for or produces                  *)
(* ("{{pipelineparam:op=", ";name=", "}}", "$(params.", ...).  No token is *)
(* a prefix of another one, so a character-level search for a piece of     *)
(* syntax is a search for its token.                                       *)
(*                                                                         *)
(* The module holds one specification for every part of the compiler, all  *)
(* over one set of variables:                                              *)
(*   SpecWrite      _create_and_write_workflow, _write_workflow,           *)
(*                  _validate_workflow                                     *)
(*   SpecDeps       _get_dependencies over a tree of groups and tasks      *)
(*   SpecRewrite    process_pipelineparam and the other rewriters          *)
(*   SpecWhen       the when-predicate propagation along runAfter          *)
(*   SpecAssemble   the references and the main and finally lists          *)
(*   SpecInline     _inline_tasks                                          *)
(*   SpecParams     the parameter lists of the lowered groups              *)
(*   SpecSanitize   _sanitize_and_inject_artifact                          *)
(*   SpecWorkspace  the workspaces of _create_workflow                     *)
(*   SpecValidate   _validate_workflow, called again and again             *)
(*   SpecLower      the lowering of the groups over the dependency map     *)
(*   SpecLoopWhen   the when-predicates of loops and graphs                *)
(*   SpecNested     nested condition groups                                *)
(* Each specification leaves the variables of the others at their initial  *)
(* idle value.                                                             *)
(***************************************************************************)
EXTENDS Integers, Sequences, FiniteSets, TLC

VARIABLES
  \* ---- _create_and_write_workflow ----
  wpc,                        \* position in _create_and_write_workflow
  resource_in_separate_yaml,  \* self.resource_in_separate_yaml
  package_path,               \* the package_path argument
  pipeline_loop_crs,          \* auxiliary documents returned by prepare_workflow
  custom_task_crs,            \* self.custom_task_crs
  workflow,                   \* the main document
  cr_i,                       \* loop index i of the running for loop
  loop_package_annotations,   \* serialized auxiliary documents to embed
  files,                      \* the output files written so far
  raised,                     \* the exception that ended compilation, or NoError
  lastCall,                   \* the last call of _write_workflow and its outcome
  \* ---- _get_dependencies ----
  dpc,                        \* position: "ops", "groups", "done" or "failed"
  parent,                     \* the tree: parent group of every group and task
  recursive_ref,              \* group.recursive_ref is set, per group
  op_inputs,                  \* producer names (op_name) of the inputs of a task or group
  dependent_names,            \* op.dependent_names, per task
  group_dependencies,         \* names of group.dependencies, per group
  condition_operands,         \* producer names of the operands of a condition group
  dependencies,               \* the dependency map under construction
  work,                       \* tasks, then groups, still to be visited
  todo,                       \* upstream_op_names of the head of work not yet resolved
  dep_error,                  \* the exception that ended dependency derivation
  dep_log,                    \* the references resolved so far and their outcome
  \* -- reference rewriting --
  rpc,                        \* "string", "once", "twice"; "object", "rewritten"
  pieces,                     \* the references and the text the string is made of
  once,                       \* process_pipelineparam(s)
  twice,                      \* process_pipelineparam(process_pipelineparam(s))
  param,                      \* a dsl.PipelineParam: its op_name and its name
  pipeline_param_names,       \* pipeline_param_names + loop_args
  rewritten,                  \* the place that rewrote param, and the value it produced
  \* -- when propagation --
  qpc,                        \* "attach", "queue" while task_queue is worked off, "done"
  in_condition,               \* the condition group directly around each task, or "none"
  runAfter,                   \* task['runAfter'], per task
  loop_task_list,             \* pipeline_loop['task_list'] of the one loop, or {}
  when_ref,                   \* the list object task['when'] refers to, 0 when the key is absent
  when_lists,                 \* the list objects: their contents
  task_queue,
  visited_tasks,              \* -1 when the task has no entry
  populated,                  \* the tasks populated so far, in order
  \* -- assembly of the pipeline document --
  apc,                        \* "groups", "templates", "refs", "resolved", "assembled"; "failed"
  condition,                  \* the condition group: operand1, operand2, operator
  subgroup_inputs,            \* inputs[group_name] of the condition group
  custom_ops,                 \* the ops whose main step runs a custom task image
  exit_handlers,              \* the ops with is_exit_handler
  template_params,            \* template['spec']['params'] of the condition group
  condition_task_ref,         \* the evaluator task: its name and its params' values
  condition_refs,             \* condition_refs[name]: the when-predicates of the group
  string_condition_refs,      \* string_condition_refs.get(name, False)
  task_refs,                  \* the task references, by name, as built
  pipeline_tasks,             \* pipelineSpec.tasks, by name
  finally_tasks,              \* pipelineSpec.finally, by name
  assemble_error,             \* the exception that ended the assembly
  \* -- inlining of the custom task documents --
  ipc,                        \* "step1" (steps 1 and 2 of the inlining), "done"
  tekton_inline_spec,
  recursive_tasks_names,
  without_pipeline_spec,      \* the documents whose spec has no pipelineSpec
  taskRef,                    \* task['taskRef']['name'], "none" without taskRef
  taskSpec,                   \* the document whose spec task['taskSpec'] holds, or "none"
  inline_i,                   \* i of step 1
  inlined_as_taskSpec,
  custom_opsgroup_crs,        \* the standalone documents, by name
  \* -- parameters of a group --
  ppc,                        \* "group", then the kind of group that was lowered
  group_inputs,               \* inputs[sub_group.name], in iteration order
  range_loop,                 \* the loop has start and end; it has step
  group_params,               \* spec['params'] of the group
  \* -- sanitization of the op names --
  spc,                        \* "ops", then "sanitized" or "failed"
  dsl_ops,                    \* pipeline.ops as the DSL built it: the names, in order
  sanitized_ops,              \* pipeline.ops afterwards: sanitized name and the op it holds
  sanitize_error,             \* the exception that ended the sanitization
  \* -- workspaces --
  kpc,                        \* "templates", "refs", then "injected" or "failed"
  pipeline_workspaces,        \* the workspaces declared in the pipeline configuration
  template_workspaces,        \* the workspaces in the task templates
  task_workspaces,            \* self.task_workspaces: its keys
  workspace_list,             \* the names in pipelineSpec.workspaces
  workspace_error,            \* the exception that ended the injection
  \* -- validations in one process --
  vpc,                        \* "process" while the process runs
  results_dict,               \* the default value of _find_items' results_dict
  document,                   \* the document validated last: its names, by path
  validation,                 \* of the last document: "ok" or "RuntimeError"
  validations,                \* the number of validations so far
  \* -- lowering of the groups --
  lpc,                        \* "lowering", then "lowered"
  dag_dependencies,           \* the map _get_dependencies returned, as the lowering holds it
  to_lower,                   \* the groups the loop of lines 670-680 has not reached yet
  lowered_runAfter,           \* loops_pipeline[group]['spec']['runAfter'] of a lowered group
  lowered_depends,            \* the 'org' entries of loops_pipeline[group]['depends']
  lowered_templates,          \* the groups that got a template (line 674)
  \* -- when-predicates of the loops and graphs --
  hpc,                        \* "loops", then "done"
  opsgroup_parent,            \* the parent group of every group
  opsgroup_name,              \* the name of every group
  loop_task_keys,             \* the keys of self.loops_pipeline the loop of line 1262 has to visit
  loops_when,                 \* self.loops_pipeline[key]['spec']['when'], or NoWhen
  \* -- nested condition groups --
  npc,                        \* "pair", "attach", then "done"
  condition_parent,           \* the group directly around every condition group
  operand_kinds,              \* the kinds of the two operands of every condition
  loop_around,                \* whether a loop lies directly around condition-2
  task_parent,                \* the group directly around every task
  nested_lists,               \* the list objects condition_refs[group], by group
  evaluator_when,             \* condition_task_ref['when']: the group whose list it is, or None
  task_when,                  \* task['when']: the group whose list it is, or None
  tasks_to_attach             \* the tasks the loop of line 1209 has not reached yet

writeVars == <<wpc, resource_in_separate_yaml, package_path, pipeline_loop_crs,
               custom_task_crs, workflow, cr_i, loop_package_annotations,
               files, raised, lastCall>>

depVars == <<dpc, parent, recursive_ref, op_inputs, dependent_names, group_dependencies,
             condition_operands, dependencies, work, todo, dep_error, dep_log>>

rewriteVars == <<rpc, pieces, once, twice, param, pipeline_param_names, rewritten>>

whenVars == <<qpc, in_condition, runAfter, loop_task_list, when_ref, when_lists,
              task_queue, visited_tasks, populated>>

assembleVars == <<apc, condition, subgroup_inputs, custom_ops, exit_handlers,
                  template_params, condition_task_ref, condition_refs,
                  string_condition_refs, task_refs, pipeline_tasks, finally_tasks,
                  assemble_error>>

inlineVars == <<ipc, tekton_inline_spec, recursive_tasks_names, without_pipeline_spec,
                taskRef, taskSpec, inline_i, inlined_as_taskSpec, custom_opsgroup_crs>>

paramsVars == <<ppc, group_inputs, range_loop, group_params>>

sanitizeVars == <<spc, dsl_ops, sanitized_ops, sanitize_error>>

workspaceVars == <<kpc, pipeline_workspaces, template_workspaces, task_workspaces,
                   workspace_list, workspace_error>>

validateVars == <<vpc, results_dict, document, validation, validations>>

lowerVars == <<lpc, dag_dependencies, to_lower, lowered_runAfter, lowered_depends,
               lowered_templates>>

loopWhenVars == <<hpc, opsgroup_parent, opsgroup_name, loop_task_keys, loops_when>>

nestedVars == <<npc, condition_parent, operand_kinds, loop_around, task_parent,
                nested_lists, evaluator_when, task_when, tasks_to_attach>>

vars == <<writeVars, depVars, rewriteVars, whenVars, assembleVars, inlineVars,
          paramsVars, sanitizeVars, workspaceVars, validateVars, lowerVars,
          loopWhenVars, nestedVars>>

notWriteVars == <<depVars, rewriteVars, whenVars, assembleVars, inlineVars, paramsVars,
                  sanitizeVars, workspaceVars, validateVars, lowerVars, loopWhenVars,
                  nestedVars>>
notDepVars == <<writeVars, rewriteVars, whenVars, assembleVars, inlineVars, paramsVars,
                sanitizeVars, workspaceVars, validateVars, lowerVars, loopWhenVars,
                nestedVars>>
notRewriteVars == <<writeVars, depVars, whenVars, assembleVars, inlineVars, paramsVars,
                    sanitizeVars, workspaceVars, validateVars, lowerVars, loopWhenVars,
                    nestedVars>>
notWhenVars == <<writeVars, depVars, rewriteVars, assembleVars, inlineVars, paramsVars,
                 sanitizeVars, workspaceVars, validateVars, lowerVars, loopWhenVars,
                 nestedVars>>
notAssembleVars == <<writeVars, depVars, rewriteVars, whenVars, inlineVars, paramsVars,
                     sanitizeVars, workspaceVars, validateVars, lowerVars,
                     loopWhenVars, nestedVars>>
notParamsVars == <<writeVars, depVars, rewriteVars, whenVars, assembleVars, inlineVars,
                   sanitizeVars, workspaceVars, validateVars, lowerVars, loopWhenVars,
                   nestedVars>>
notInlineVars == <<writeVars, depVars, rewriteVars, whenVars, assembleVars, paramsVars,
                   sanitizeVars, workspaceVars, validateVars, lowerVars, loopWhenVars,
                   nestedVars>>
notSanitizeVars == <<writeVars, depVars, rewriteVars, whenVars, assembleVars,
                     inlineVars, paramsVars, workspaceVars, validateVars, lowerVars,
                     loopWhenVars, nestedVars>>
notWorkspaceVars == <<writeVars, depVars, rewriteVars, whenVars, assembleVars,
                      inlineVars, paramsVars, sanitizeVars, validateVars, lowerVars,
                      loopWhenVars, nestedVars>>
notValidateVars == <<writeVars, depVars, rewriteVars, whenVars, assembleVars,
                     inlineVars, paramsVars, sanitizeVars, workspaceVars, lowerVars,
                     loopWhenVars, nestedVars>>
notLowerVars == <<writeVars, depVars, rewriteVars, whenVars, assembleVars, inlineVars,
                  paramsVars, sanitizeVars, workspaceVars, validateVars, loopWhenVars,
                  nestedVars>>
notLoopWhenVars == <<writeVars, depVars, rewriteVars, whenVars, assembleVars,
                     inlineVars, paramsVars, sanitizeVars, workspaceVars, validateVars,
                     lowerVars, nestedVars>>
notNestedVars == <<writeVars, depVars, rewriteVars, whenVars, assembleVars, inlineVars,
                   paramsVars, sanitizeVars, workspaceVars, validateVars, lowerVars,
                   loopWhenVars>>

None == "None"
NoError == "NoError"

(***************************************************************************)
(* Bounds of the model.                                                    *)
(***************************************************************************)
MaxLoopCrs == 2
MaxCustomCrs == 1
MaxInputs == 1        \* inputs of the consuming task
MaxEdges == 3         \* run-after edges in the task graph
MaxGroupInputs == 2   \* inputs of a lowered group
MaxOps == 3           \* ops of the pipeline
MaxValidations == 2   \* documents validated in one process
MaxPieces == 4        \* references and stretches of text in one string

(***************************************************************************)
(* Generic helpers on sequences.                                           *)
(***************************************************************************)
Range(s) == {s[k] : k \in 1..Len(s)}

RECURSIVE Flatten(_)
Flatten(ss) == IF ss = <<>> THEN <<>> ELSE Head(ss) \o Flatten(Tail(ss))

NoRepeat(s) == \A i \in 1..Len(s) : \A j \in 1..Len(s) : s[i] = s[j] => i = j

SeqsUpTo(S, n) == UNION {[1..k -> S] : k \in 0..n}

(***************************************************************************)
(* Tokens.                                                                 *)
(***************************************************************************)
OPEN == "{{pipelineparam:op="
NAME == ";name="
CLOSE == "}}"
SP == " "
PARAMS == "$(params."
TASKS == "$(tasks."
RESULTS == ".results."
RPAR == ")"

\* characters that sanitize_k8s_name may keep
LowerLetters == {"a", "b", "c", "e", "k", "t", "x", "y", "1", "2", "3", "4", "pipelineparam", "op",
                 "name", "params", "tasks", "results", "for", "loop", "condition", "graph"}
UpperLetters == {"A", "B", "X"}
ToLower(c) == CASE c = "A" -> "a" [] c = "B" -> "b" [] c = "X" -> "x" [] OTHER -> c

\* The characters of a multi-character token, as far as sanitization can tell
\* them apart: its words, and "!" for each run of other characters.
Chars(tok) ==
  CASE tok = OPEN    -> <<"!", "pipelineparam", "!", "op", "!">>
    [] tok = NAME    -> <<"!", "name", "!">>
    [] tok = CLOSE   -> <<"!">>
    [] tok = PARAMS  -> <<"!", "params", ".">>
    [] tok = TASKS   -> <<"!", "tasks", ".">>
    [] tok = RESULTS -> <<".", "results", ".">>
    [] tok = RPAR    -> <<"!">>
    [] tok = SP      -> <<"!">>
    [] OTHER         -> <<tok>>

RECURSIVE CollapseDashes(_)
CollapseDashes(s) ==
  IF Len(s) < 2 THEN s
  ELSE IF s[1] = "-" /\ s[2] = "-" THEN CollapseDashes(Tail(s))
       ELSE <<s[1]>> \o CollapseDashes(Tail(s))

RECURSIVE StripLeft(_)
StripLeft(s) == IF s # <<>> /\ s[1] = "-" THEN StripLeft(Tail(s)) ELSE s

RECURSIVE StripRight(_)
StripRight(s) ==
  IF s # <<>> /\ s[Len(s)] = "-" THEN StripRight(SubSeq(s, 1, Len(s) - 1)) ELSE s

\* kfp_tekton.compiler._k8s_helper.sanitize_k8s_name: every character outside
\* [-_./0-9A-Za-z] becomes "-"; "_" becomes "-" and capitals are lowered unless
\* allowed; "." and "/" become "-" unless allowed; runs of "-" collapse and
\* enclosing "-" are stripped.  (Names of the model stay far below max_length.)
sanitize_k8s_name(name, allow_capital_underscore, allow_dot, allow_slash, allow_capital) ==
  LET cs == Flatten([k \in 1..Len(name) |-> Chars(name[k])])
      One(c) ==
        IF c \in LowerLetters \/ c = "-" THEN c
        ELSE IF c \in UpperLetters
             THEN (IF allow_capital_underscore \/ allow_capital THEN c ELSE ToLower(c))
        ELSE IF c = "_" THEN (IF allow_capital_underscore THEN c ELSE "-")
        ELSE IF c = "." THEN (IF allow_dot THEN c ELSE "-")
        ELSE IF c = "/" THEN (IF allow_slash THEN c ELSE "-")
        ELSE "-"
  IN StripRight(StripLeft(CollapseDashes([k \in 1..Len(cs) |-> One(cs[k])])))

\* sanitize_k8s_name(name)
SanitizeName(name) == sanitize_k8s_name(name, FALSE, FALSE, FALSE, FALSE)
\* sanitize_k8s_name(name, allow_capital=True)
SanitizeCap(name) == sanitize_k8s_name(name, FALSE, FALSE, FALSE, TRUE)

(***************************************************************************)
(* Documents and their emission.                                           *)
(*                                                                         *)
(* A document is what the checks of the emission path look at: the "name"  *)
(* entries _find_items collects (with the class of their path), the label  *)
(* and annotation maps under a metadata path, and its serialization (the   *)
(* text dump_yaml yields for it).                                          *)
(***************************************************************************)
ARGO_UID == "{{workflow.uid}}"            \* an Argo variable with a Tekton equivalent
TEKTON_UID == "$(context.pipelineRun.uid)"
ARGO_STATUS == "{{workflow.status}}"      \* an Argo variable without one
RAW_GROUP == "pipeline-for-loop-1"        \* a key of self.group_names
UUID_GROUP == "pipeline-0a1b2-for-loop-1" \* its value, with self.uuid injected

ErrArgo == "ValueError: These Argo variables are not supported in Tekton Pipeline"
ErrUnresolved == "RuntimeError: Internal compiler error: Found unresolved PipelineParam"
ErrPath == "ValueError: The output path should end with one of the following formats"
ErrNames == "RuntimeError: Internal compiler error: Found non-compliant Kubernetes names"
ErrLabels == "RuntimeError: Internal compiler error: Found non-compliant Kubernetes labels"
ErrAnnotations == "RuntimeError: Internal compiler error: Found non-compliant Kubernetes annotations"

\* the messages that state an internal compiler error
InternalCompilerErrors == {ErrUnresolved, ErrNames, ErrLabels, ErrAnnotations}
NamingErrors == {ErrNames, ErrLabels, ErrAnnotations}

GoodKey == <<"a", ".", "b", "/", "c", "_", "t">>   \* like tekton.dev/resource_templates
ResourceTemplatesKey == <<"t", ".", "b", "/", "x", "_", "t">>

NameSets ==
  { {[path |-> "metadata", name |-> <<"a", "-", "b">>]},
    {[path |-> "metadata", name |-> <<"A", "b">>]},
    {[path |-> "metadata", name |-> <<"a">>], [path |-> "param", name |-> <<"A", "_", "b">>]},
    {[path |-> "metadata", name |-> <<"a">>], [path |-> "param", name |-> <<"a", SP, "b">>]},
    {[path |-> "metadata", name |-> <<"a">>], [path |-> "other", name |-> <<"A", SP>>]} }

LabelSets == { {}, {<<GoodKey, <<"A", ".", "b">> >>}, {<<GoodKey, <<"a", "/", "b">> >>} }

AnnotationSets == { {GoodKey}, {GoodKey, <<"a", SP, "b">>} }

UnresolvedRef == <<OPEN, NAME, "x", CLOSE>>

BodyTexts ==
  { <<"a">>, UnresolvedRef, <<ARGO_STATUS>>, <<ARGO_STATUS, SP>> \o UnresolvedRef,
    <<ARGO_UID, RAW_GROUP>> }

MainDocs ==
  [names : NameSets, labels : LabelSets, annotations : AnnotationSets,
   meta_name : {<<"a">>}, text : BodyTexts]

\* auxiliary documents: the metadata name may be missing ("")
CrDocs ==
  [names : {{}}, labels : {{}}, annotations : {{}},
   meta_name : {<<>>, <<"a">>}, text : {<<"b">>, UnresolvedRef}]

\* package paths: os.path.splitext(package_path) = (stem, ext); derived files
\* carry a tag and the extension .yaml
Path(tag, n, ext) == [tag |-> tag, n |-> n, ext |-> ext]
PackageExts == {".yaml", ".txt"}
SupportedExts == {".tar.gz", ".tgz", ".zip", ".yaml", ".yml"}

\* package_path=None: the text is returned instead of written
NoPath == [tag |-> "None", n |-> 0, ext |-> ""]

NoCall == [text |-> <<>>, path |-> NoPath, result |-> "none"]

\* _process_argo_vars: Argo variables that have a Tekton equivalent are
\* replaced by it, every other text is left as it is
_process_argo_vars(text) ==
  [k \in 1..Len(text) |-> IF text[k] = ARGO_UID THEN TEKTON_UID ELSE text[k]]

\* re.findall(r"{{[^ \t\n.:,;{}]+\.[^ \t\n:,;{}]+}}", yaml_text)
unsupported_vars(yaml_text) == {k \in 1..Len(yaml_text) : yaml_text[k] = ARGO_STATUS}

\* '{{pipelineparam' in yaml_text
HasUnresolved(yaml_text) == \E k \in 1..Len(yaml_text) : yaml_text[k] = OPEN

\* _write_workflow without the check for a leftover '{{pipelineparam'
_write_workflow_unchecked(doc, path) ==
  LET yaml_text == _process_argo_vars(doc.text)
      result ==
        IF unsupported_vars(yaml_text) # {} THEN ErrArgo
        ELSE IF path = NoPath THEN "returned"
        ELSE IF path.ext \in SupportedExts THEN "written"
        ELSE ErrPath
  IN [text |-> yaml_text, path |-> path, result |-> result]

\* TektonCompiler._write_workflow: the outcome of the call and the text it
\* returned or wrote
_write_workflow(doc, path) ==
  LET yaml_text == _process_argo_vars(doc.text)
      result ==
        IF unsupported_vars(yaml_text) # {} THEN ErrArgo
        ELSE IF HasUnresolved(yaml_text) THEN ErrUnresolved
        ELSE IF path = NoPath THEN "returned"
        ELSE IF path.ext \in SupportedExts THEN "written"
        ELSE ErrPath
  IN [text |-> yaml_text, path |-> path, result |-> result]

IsError(result) == result \notin {"returned", "written", "none"}

\* _validate_workflow: the error it raises, or NoError
_validate_workflow(doc) ==
  LET non_k8s_names ==
        {e \in doc.names :
           \/ e.path = "metadata" /\ e.name # sanitize_k8s_name(e.name, FALSE, FALSE, FALSE, FALSE)
           \/ e.path = "param" /\ e.name # sanitize_k8s_name(e.name, TRUE, FALSE, FALSE, FALSE)}
      non_k8s_labels ==
        {kv \in doc.labels :
           \/ kv[1] # sanitize_k8s_name(kv[1], TRUE, TRUE, TRUE, FALSE)
           \/ kv[2] # sanitize_k8s_name(kv[2], TRUE, TRUE, FALSE, FALSE)}
      non_k8s_annotations ==
        {k \in doc.annotations : k # sanitize_k8s_name(k, TRUE, TRUE, TRUE, FALSE)}
  IN IF non_k8s_names # {} THEN ErrNames
     ELSE IF non_k8s_labels # {} THEN ErrLabels
     ELSE IF non_k8s_annotations # {} THEN ErrAnnotations
     ELSE NoError

IdleWrite ==
  /\ wpc = "idle"
  /\ resource_in_separate_yaml = FALSE
  /\ package_path = NoPath
  /\ pipeline_loop_crs = <<>>
  /\ custom_task_crs = <<>>
  /\ workflow = <<>>
  /\ cr_i = 0
  /\ loop_package_annotations = <<>>
  /\ files = {}
  /\ raised = NoError
  /\ lastCall = NoCall

InitWrite ==
  /\ wpc = "loop_crs"
  /\ resource_in_separate_yaml \in BOOLEAN
  /\ package_path \in {Path("", 0, e) : e \in PackageExts}
  /\ pipeline_loop_crs \in SeqsUpTo(CrDocs, MaxLoopCrs)
  /\ custom_task_crs \in SeqsUpTo({d \in CrDocs : d.meta_name # <<>>}, MaxCustomCrs)
  /\ workflow \in MainDocs
  /\ cr_i = 0
  /\ loop_package_annotations = <<>>
  /\ files = {}
  /\ raised = NoError
  /\ lastCall = NoCall

\* one iteration of the loop over pipeline_loop_crs (lines 1891-1899)
WriteLoopCr ==
  /\ wpc = "loop_crs"
  /\ cr_i < Len(pipeline_loop_crs)
  /\ LET cr == pipeline_loop_crs[cr_i + 1]
         call == IF resource_in_separate_yaml
                 THEN _write_workflow(cr, Path("_pipelineloop_cr", cr_i + 1, ".yaml"))
                 ELSE _write_workflow(cr, NoPath)
     IN IF cr.meta_name = <<>>
        THEN /\ cr_i' = cr_i + 1
             /\ UNCHANGED <<wpc, loop_package_annotations, files, raised, lastCall>>
        ELSE /\ lastCall' = call
             /\ IF IsError(call.result)
                THEN /\ wpc' = "failed"
                     /\ raised' = call.result
                     /\ UNCHANGED <<cr_i, loop_package_annotations, files>>
                ELSE /\ cr_i' = cr_i + 1
                     /\ files' = IF call.result = "written" THEN files \cup {call.path} ELSE files
                     /\ loop_package_annotations' =
                          IF call.result = "returned"
                          THEN Append(loop_package_annotations, call.text)
                          ELSE loop_package_annotations
                     /\ UNCHANGED <<wpc, raised>>
  /\ UNCHANGED <<resource_in_separate_yaml, package_path, pipeline_loop_crs,
                 custom_task_crs, workflow>>
  /\ UNCHANGED notWriteVars

\* lines 1900-1949: embed the serialized auxiliary documents as an annotation
\* and inject the uuid group names (self.produce_taskspec is always True)
Assemble ==
  /\ wpc = "loop_crs"
  /\ cr_i = Len(pipeline_loop_crs)
  /\ LET annotated ==
           IF loop_package_annotations # <<>>
           THEN [workflow EXCEPT !.annotations = @ \cup {ResourceTemplatesKey},
                                 !.text = @ \o Flatten(loop_package_annotations)]
           ELSE workflow
     IN workflow' = [annotated EXCEPT !.text =
                       [k \in 1..Len(@) |-> IF @[k] = RAW_GROUP THEN UUID_GROUP ELSE @[k]]]
  /\ wpc' = "write_main"
  /\ UNCHANGED <<resource_in_separate_yaml, package_path, pipeline_loop_crs, custom_task_crs,
                 cr_i, loop_package_annotations, files, raised, lastCall>>
  /\ UNCHANGED notWriteVars

\* line 1950
WriteMain ==
  /\ wpc = "write_main"
  /\ LET call == _write_workflow(workflow, package_path)
     IN /\ lastCall' = call
        /\ IF IsError(call.result)
           THEN wpc' = "failed" /\ raised' = call.result /\ UNCHANGED <<files, cr_i>>
           ELSE /\ wpc' = "custom_crs"
                /\ cr_i' = 0
                /\ files' = files \cup {call.path}
                /\ UNCHANGED raised
  /\ UNCHANGED <<resource_in_separate_yaml, package_path, pipeline_loop_crs, custom_task_crs,
                 workflow, loop_package_annotations>>
  /\ UNCHANGED notWriteVars

\* one iteration of the loop over self.custom_task_crs (lines 1953-1956)
WriteCustomTaskCr ==
  /\ wpc = "custom_crs"
  /\ cr_i < Len(custom_task_crs)
  /\ LET call == _write_workflow(custom_task_crs[cr_i + 1],
                                 Path("_customtask_cr", cr_i + 1, ".yaml"))
     IN /\ lastCall' = call
        /\ IF IsError(call.result)
           THEN wpc' = "failed" /\ raised' = call.result /\ UNCHANGED <<files, cr_i>>
           ELSE /\ cr_i' = cr_i + 1
                /\ files' = files \cup {call.path}
                /\ UNCHANGED <<wpc, raised>>
  /\ UNCHANGED <<resource_in_separate_yaml, package_path, pipeline_loop_crs, custom_task_crs,
                 workflow, loop_package_annotations>>
  /\ UNCHANGED notWriteVars

\* line 1957
Validate ==
  /\ wpc = "custom_crs"
  /\ cr_i = Len(custom_task_crs)
  /\ LET err == _validate_workflow(workflow)
     IN IF err # NoError
        THEN wpc' = "failed" /\ raised' = err
        ELSE wpc' = "done" /\ UNCHANGED raised
  /\ UNCHANGED <<resource_in_separate_yaml, package_path, pipeline_loop_crs, custom_task_crs,
                 workflow, cr_i, loop_package_annotations, files, lastCall>>
  /\ UNCHANGED notWriteVars

NextWrite == WriteLoopCr \/ Assemble \/ WriteMain \/ WriteCustomTaskCr \/ Validate

(***************************************************************************)
(* The tree of groups and tasks, and dependency derivation.                *)
(*                                                                         *)
(* A name is a sequence of tokens; 'condition-' in name and                *)
(* "for-loop" in name test for the tokens "condition-" and "for-loop".     *)
(***************************************************************************)
ROOT == <<"pipeline">>
CondA == <<"condition-", "1">>
CondB == <<"condition-", "2">>
Graph3 == <<"graph-", "3">>
T1 == <<"t1">>
T2 == <<"t2">>
TC == <<"check-", "condition-", "x">>       \* a task whose name holds 'condition-'
GHOST == <<"ghost">>                        \* in neither namespace
LOOP_GHOST == <<"for-loop", "-item">>       \* in neither namespace, holds "for-loop"

Groups == {ROOT, CondA, CondB, Graph3}      \* opsgroups
Tasks == {T1, T2, TC}                       \* pipeline.ops
Entities == Groups \cup Tasks
GroupOrder == <<ROOT, CondA, CondB, Graph3>>   \* order of group.groups below a parent
OpsOrder == <<T1, TC, T2>>                  \* order of pipeline.ops.values()

Contains(name, tok) == \E k \in 1..Len(name) : name[k] = tok

IsCondition(g) == g \in {CondA, CondB}      \* group.type == 'condition'

\* ancestor path: the names from the root down to the entity, inclusive
\* (_get_groups_for_ops, _get_groups_for_opsgroups)
RECURSIVE ancestorPath(_, _)
ancestorPath(par, e) == IF e = ROOT THEN <<ROOT>> ELSE ancestorPath(par, par[e]) \o <<e>>

\* the length of the longest common prefix of two paths
RECURSIVE CommonPrefixLen(_, _)
CommonPrefixLen(p, q) ==
  IF p = <<>> \/ q = <<>> \/ Head(p) # Head(q) THEN 0
  ELSE 1 + CommonPrefixLen(Tail(p), Tail(q))

Drop(p, n) == SubSeq(p, n + 1, Len(p))

\* a variant that cuts one element too early (keeps the last common group)
_get_uncommon_ancestors_keep_common(par, op1, op2) ==
  LET p1 == ancestorPath(par, op1)
      p2 == ancestorPath(par, op2)
      n == CommonPrefixLen(p1, p2)
  IN <<Drop(p1, n - 1), Drop(p2, n)>>

\* _get_uncommon_ancestors(op_groups, opsgroups_groups, op1, op2): the two
\* suffixes of the ancestor paths after their longest common prefix
_get_uncommon_ancestors(par, op1, op2) ==
  LET p1 == ancestorPath(par, op1)
      p2 == ancestorPath(par, op2)
      n == CommonPrefixLen(p1, p2)
  IN <<Drop(p1, n), Drop(p2, n)>>

\* _get_condition_params_for_ops: the operand producers of every condition
\* group that encloses the entity
condition_params(par, operands, e) ==
  LET path == ancestorPath(par, e)
  IN UNION {operands[path[k]] : k \in {j \in 1..Len(path) - 1 : IsCondition(path[j])}}

\* upstream_op_names of a task (lines 699-703)
UpstreamOfOp(op) ==
  {n \in op_inputs[op] \cup condition_params(parent, condition_operands, op) : n # <<>>}
    \cup dependent_names[op]

\* upstream_op_names of a group (lines 728-733)
UpstreamOfGroup(g) ==
  group_dependencies[g] \cup
    (IF recursive_ref[g]
     THEN {n \in op_inputs[g] \cup condition_params(parent, condition_operands, g) : n # <<>>}
     ELSE {})

\* the groups in the order _get_dependency_opsgroup visits them
RECURSIVE PreOrder(_, _)
PreOrder(par, g) ==
  <<g>> \o Flatten([k \in 1..Len(GroupOrder) |->
                      IF GroupOrder[k] # ROOT /\ par[GroupOrder[k]] = g
                      THEN PreOrder(par, GroupOrder[k]) ELSE <<>>])

\* the variant without the while loop: the first uncommon ancestor as it is
KeepConditions(upstream_groups) == upstream_groups

\* while len(upstream_groups) > 0 and 'condition-' in upstream_groups[0]: pop(0)
RECURSIVE PopConditions(_)
PopConditions(upstream_groups) ==
  IF upstream_groups # <<>> /\ Contains(upstream_groups[1], "condition-")
  THEN PopConditions(Tail(upstream_groups))
  ELSE upstream_groups

\* every group reaches the root by following parent links
RECURSIVE Up(_, _, _)
Up(par, x, k) == IF k = 0 \/ x = ROOT THEN x ELSE Up(par, par[x], k - 1)

IsTree(par) == \A g \in Groups \ {ROOT} : Up(par, g, Cardinality(Groups)) = ROOT

ErrCannotFind == "ValueError: compiler cannot find the upstream"
ErrIndex == "IndexError: list index out of range"

IdleDeps ==
  /\ dpc = "idle"
  /\ parent = <<>>
  /\ recursive_ref = <<>>
  /\ op_inputs = <<>>
  /\ dependent_names = <<>>
  /\ group_dependencies = <<>>
  /\ condition_operands = <<>>
  /\ dependencies = <<>>
  /\ work = <<>>
  /\ todo = {}
  /\ dep_error = NoError
  /\ dep_log = {}

InitDeps ==
  /\ dpc = "ops"
  /\ \E pa \in {ROOT, Graph3}, pb \in {ROOT, CondA}, pg \in {ROOT, CondA},
        p1 \in Groups, p2 \in Groups, pc \in {ROOT, CondA} :
       /\ parent = (CondA :> pa) @@ (CondB :> pb) @@ (Graph3 :> pg) @@
                   (T1 :> p1) @@ (T2 :> p2) @@ (TC :> pc)
       /\ IsTree(parent)
  /\ \E rr \in BOOLEAN :
       /\ rr => \A e \in Entities \ {ROOT} : parent[e] # Graph3
       /\ recursive_ref = [g \in Groups |-> g = Graph3 /\ rr]
       /\ \E in2 \in {x \in SUBSET {<<>>, T1, TC, GHOST, LOOP_GHOST} : Cardinality(x) <= MaxInputs},
             in3 \in (IF rr THEN {{<<>>}, {T1}} ELSE {{}}) :
            op_inputs = [e \in Entities |-> IF e = T2 THEN in2 ELSE IF e = Graph3 THEN in3 ELSE {}]
  /\ \E dn \in {{}, {T1}, {Graph3}} :
       dependent_names = [t \in Tasks |-> IF t = T2 THEN dn ELSE {}]
  /\ \E gd \in {{}, {T1}, {GHOST}, {LOOP_GHOST}} :
       group_dependencies = [g \in Groups |-> IF g = Graph3 THEN gd ELSE {}]
  /\ \E co \in {{<<>>}, {T1}} :
       condition_operands = [g \in Groups |-> IF g = CondA THEN co ELSE {}]
  /\ dependencies = [e \in Entities |-> {}]
  /\ work = OpsOrder
  /\ todo = UpstreamOfOp(OpsOrder[1])
  /\ dep_error = NoError
  /\ dep_log = {}

LogEntry(down, up, pass, outcome) ==
  [down |-> down, up |-> up, pass |-> pass, outcome |-> outcome]

\* lines 717-723 and 742-748: record the dependency between the first
\* uncommon ancestors
RecordDependency(upstream_op, downstream_op, pass) ==
  LET tails == _get_uncommon_ancestors(parent, upstream_op, downstream_op)
      upstream_groups == PopConditions(tails[1])
      downstream_groups == tails[2]
  IN IF upstream_groups = <<>>
     THEN /\ dep_log' = dep_log \cup {LogEntry(downstream_op, upstream_op, pass, "nodep")}
          /\ UNCHANGED <<dependencies, dpc, dep_error>>
     ELSE IF downstream_groups = <<>>
     THEN /\ dpc' = "failed"
          /\ dep_error' = ErrIndex
          /\ dep_log' = dep_log \cup {LogEntry(downstream_op, upstream_op, pass, "raised")}
          /\ UNCHANGED dependencies
     ELSE /\ dependencies' = [dependencies EXCEPT ![downstream_groups[1]] =
                                @ \cup {upstream_groups[1]}]
          /\ dep_log' = dep_log \cup {LogEntry(downstream_op, upstream_op, pass, "dep")}
          /\ UNCHANGED <<dpc, dep_error>>

\* one iteration of the loop of lines 705-723 with the upstream name found
\* among the tasks or the groups
DepOfOp ==
  /\ dpc = "ops" /\ work # <<>>
  /\ \E upstream_op_name \in todo :
       /\ upstream_op_name \in Tasks \cup Groups
       /\ RecordDependency(upstream_op_name, Head(work), "ops")
       /\ todo' = todo \ {upstream_op_name}
  /\ UNCHANGED <<parent, recursive_ref, op_inputs, dependent_names, group_dependencies,
                 condition_operands, work>>
  /\ UNCHANGED notDepVars

\* lines 711-712: an unknown name that holds "for-loop" is passed over
DepOfOpForLoop ==
  /\ dpc = "ops" /\ work # <<>>
  /\ \E upstream_op_name \in todo :
       /\ upstream_op_name \notin Tasks \cup Groups
       /\ Contains(upstream_op_name, "for-loop")
       /\ todo' = todo \ {upstream_op_name}
       /\ dep_log' = dep_log \cup {LogEntry(Head(work), upstream_op_name, "ops", "skipped")}
  /\ UNCHANGED <<dpc, parent, recursive_ref, op_inputs, dependent_names, group_dependencies,
                 condition_operands, dependencies, work, dep_error>>
  /\ UNCHANGED notDepVars

\* lines 713-715
DepOfOpNotFound ==
  /\ dpc = "ops" /\ work # <<>>
  /\ \E upstream_op_name \in todo :
       /\ upstream_op_name \notin Tasks \cup Groups
       /\ ~Contains(upstream_op_name, "for-loop")
       /\ dpc' = "failed"
       /\ dep_error' = ErrCannotFind
       /\ dep_log' = dep_log \cup {LogEntry(Head(work), upstream_op_name, "ops", "raised")}
  /\ UNCHANGED <<parent, recursive_ref, op_inputs, dependent_names, group_dependencies,
                 condition_operands, dependencies, work, todo>>
  /\ UNCHANGED notDepVars

\* the next task of the loop of line 698, or the start of
\* _get_dependency_opsgroup(root_group, dependencies) (line 753)
NextOp ==
  /\ dpc = "ops" /\ work # <<>> /\ todo = {}
  /\ IF Len(work) > 1
     THEN /\ work' = Tail(work)
          /\ todo' = UpstreamOfOp(work[2])
          /\ UNCHANGED dpc
     ELSE /\ work' = PreOrder(parent, ROOT)
          /\ todo' = UpstreamOfGroup(ROOT)
          /\ dpc' = "groups"
  /\ UNCHANGED <<parent, recursive_ref, op_inputs, dependent_names, group_dependencies,
                 condition_operands, dependencies, dep_error, dep_log>>
  /\ UNCHANGED notDepVars

\* one iteration of the loop of lines 735-748 with the name found
DepOfGroup ==
  /\ dpc = "groups" /\ work # <<>>
  /\ \E op_name \in todo :
       /\ op_name \in Tasks \cup Groups
       /\ RecordDependency(op_name, Head(work), "groups")
       /\ todo' = todo \ {op_name}
  /\ UNCHANGED <<parent, recursive_ref, op_inputs, dependent_names, group_dependencies,
                 condition_operands, work>>
  /\ UNCHANGED notDepVars

\* a variant that passes over the unknown name instead of raising
DepOfGroupSkipsUnknown ==
  /\ dpc = "groups" /\ work # <<>>
  /\ \E op_name \in todo :
       /\ op_name \notin Tasks \cup Groups
       /\ todo' = todo \ {op_name}
       /\ dep_log' = dep_log \cup {LogEntry(Head(work), op_name, "groups", "skipped")}
  /\ UNCHANGED <<dpc, parent, recursive_ref, op_inputs, dependent_names, group_dependencies,
                 condition_operands, dependencies, work, dep_error>>
  /\ UNCHANGED notDepVars

\* lines 740-741
DepOfGroupNotFound ==
  /\ dpc = "groups" /\ work # <<>>
  /\ \E op_name \in todo :
       /\ op_name \notin Tasks \cup Groups
       /\ dpc' = "failed"
       /\ dep_error' = ErrCannotFind
       /\ dep_log' = dep_log \cup {LogEntry(Head(work), op_name, "groups", "raised")}
  /\ UNCHANGED <<parent, recursive_ref, op_inputs, dependent_names, group_dependencies,
                 condition_operands, dependencies, work, todo>>
  /\ UNCHANGED notDepVars

\* the next group of the recursion of lines 750-751, or the return of line 755
NextGroup ==
  /\ dpc = "groups" /\ work # <<>> /\ todo = {}
  /\ work' = Tail(work)
  /\ IF Len(work) > 1
     THEN todo' = UpstreamOfGroup(work[2]) /\ UNCHANGED dpc
     ELSE todo' = {} /\ dpc' = "done"
  /\ UNCHANGED <<parent, recursive_ref, op_inputs, dependent_names, group_dependencies,
                 condition_operands, dependencies, dep_error, dep_log>>
  /\ UNCHANGED notDepVars

NextDeps ==
  \/ DepOfOp \/ DepOfOpForLoop \/ DepOfOpNotFound \/ NextOp
  \/ DepOfGroup \/ DepOfGroupNotFound \/ NextGroup

(***************************************************************************)
(* Reference rewriting: process_pipelineparam and the places that rewrite  *)
(* a dsl.PipelineParam object.                                             *)
(***************************************************************************)
\* str(PipelineParam): '{{pipelineparam:op=%s;name=%s}}'
Reference(op_name, name) == <<OPEN>> \o op_name \o <<NAME>> \o name \o <<CLOSE>>

RefOps == {<<>>, <<"t">>, <<"X", "_", "1">>}
RefNames == {<<"x">>, <<"A", "_", "b">>}
Texts == {<<SP>>, <<"-">>, <<"c">>, <<PARAMS, "y", RPAR>>}

RefPiece(op_name, name) == [kind |-> "ref", op_name |-> op_name, name |-> name, text |-> <<>>]
TextPiece(text) == [kind |-> "text", op_name |-> <<>>, name |-> <<>>, text |-> text]

Pieces == {RefPiece(o, n) : o \in RefOps, n \in RefNames} \cup {TextPiece(t) : t \in Texts}

PieceText(pc) == IF pc.kind = "ref" THEN Reference(pc.op_name, pc.name) ELSE pc.text

\* the string the pieces spell
StringOf(ps) == Flatten([k \in 1..Len(ps) |-> PieceText(ps[k])])

\* [^ \t\n,]
IsSeparator(tok) == tok = SP

Max(S) == CHOOSE m \in S : \A k \in S : k <= m

\* the end of the run of non-separators that starts after position i
RECURSIVE RunEnd(_, _)
RunEnd(s, i) ==
  IF i < Len(s) /\ ~IsSeparator(s[i + 1]) THEN RunEnd(s, i + 1) ELSE i

\* re.findall(r"{{pipelineparam:op=([^ \t\n,]*);name=([^ \t\n,]*)}}", s) from
\* position i on: both groups are greedy, so the second group ends at the last
\* '}}' of the run and the first group at the last ';name=' before it.
RECURSIVE findall(_, _)
findall(s, i) ==
  IF i > Len(s) THEN <<>>
  ELSE IF s[i] # OPEN THEN findall(s, i + 1)
  ELSE LET e == RunEnd(s, i)
           closes == {k \in i + 1 .. e : s[k] = CLOSE}
           c == Max(closes)
           names == {k \in i + 1 .. c - 1 : s[k] = NAME}
           n == Max(names)
       IN IF closes = {} \/ names = {} THEN findall(s, i + 1)
          ELSE <<<<SubSeq(s, i + 1, n - 1), SubSeq(s, n + 1, c - 1)>>>> \o findall(s, c + 1)

StartsWith(s, i, old) ==
  /\ i + Len(old) - 1 <= Len(s)
  /\ SubSeq(s, i, i + Len(old) - 1) = old

\* str.replace(old, new): every occurrence, from the left, without overlap
RECURSIVE replace(_, _, _, _)
replace(s, i, old, new) ==
  IF i > Len(s) THEN <<>>
  ELSE IF StartsWith(s, i, old) THEN new \o replace(s, i + Len(old), old, new)
  ELSE <<s[i]>> \o replace(s, i + 1, old, new)

\* lines 408-415: the substitution of one match
Substitution(pipe_param) ==
  IF pipe_param[1] = <<>>
  THEN <<PARAMS>> \o pipe_param[2] \o <<RPAR>>
  ELSE <<TASKS>> \o SanitizeName(pipe_param[1]) \o <<RESULTS>> \o
       SanitizeCap(pipe_param[2]) \o <<RPAR>>

\* lines 407-415: the loop over the matches
RECURSIVE ReplaceEach(_, _)
ReplaceEach(s, pipe_params) ==
  IF pipe_params = <<>> THEN s
  ELSE ReplaceEach(replace(s, 1, Reference(Head(pipe_params)[1], Head(pipe_params)[2]),
                           Substitution(Head(pipe_params))),
                   Tail(pipe_params))

\* lines 396-416
process_pipelineparam(s) ==
  IF OPEN \in Range(s) THEN ReplaceEach(s, findall(s, 1)) ELSE s

\* kfp.dsl.PipelineParam: op_name is None (here <<>>) or a non-empty name
ParamOps == {<<>>, <<"t">>, <<"X", "_", "1">>}
ParamNames == {<<"x">>, <<"A", "_", "b">>}
Params == [op_name : ParamOps, name : ParamNames]

\* PipelineParam.full_name
full_name(pp) == IF pp.op_name # <<>> THEN pp.op_name \o <<"-">> \o pp.name ELSE pp.name

\* lines 422-428, 500-505 and 528-533: the places that test 'op_name is None'
RewriteIsNone(v) ==
  IF v.op_name = <<>>
  THEN <<PARAMS>> \o v.name \o <<RPAR>>
  ELSE <<TASKS>> \o SanitizeName(v.op_name) \o <<RESULTS>> \o SanitizeCap(v.name) \o <<RPAR>>

\* lines 554-562 (and 1169-1180): the producer is not sanitized
process_parameter(parameter) ==
  IF parameter.op_name # <<>>
  THEN <<TASKS>> \o parameter.op_name \o <<RESULTS>> \o SanitizeCap(parameter.name) \o <<RPAR>>
  ELSE <<PARAMS>> \o parameter.name \o <<RPAR>>

\* lines 1304-1320: a custom task parameter whose value is
\* $(inputs.params.<full name of pp>), pp being an input of the task
CustomTaskValue(pp, names) ==
  LET pipeline_param == full_name(pp)
  IN IF pipeline_param \in names
     THEN <<PARAMS>> \o pipeline_param \o <<RPAR>>
     ELSE IF pp.op_name # <<>>
          THEN <<TASKS>> \o SanitizeName(pp.op_name) \o <<RESULTS>> \o
               SanitizeCap(pp.name) \o <<RPAR>>
          ELSE <<PARAMS>> \o pipeline_param \o <<RPAR>>

NoParam == [op_name |-> <<>>, name |-> <<>>]
NoRewrite == [place |-> "none", value |-> <<>>]

IdleRewrite ==
  /\ rpc = "idle"
  /\ pieces = <<>>
  /\ once = <<>>
  /\ twice = <<>>
  /\ param = NoParam
  /\ pipeline_param_names = {}
  /\ rewritten = NoRewrite

\* either a string to rewrite, or a PipelineParam object and the names of the
\* pipeline's parameters and loop arguments
InitRewrite ==
  /\ once = <<>>
  /\ twice = <<>>
  /\ rewritten = NoRewrite
  /\ \/ /\ rpc = "string"
        /\ pieces \in SeqsUpTo(Pieces, MaxPieces)
        /\ param = NoParam
        /\ pipeline_param_names = {}
     \/ /\ rpc = "object"
        /\ pieces = <<>>
        /\ param \in Params
        /\ pipeline_param_names \in SUBSET {<<"x">>, <<"A", "_", "b">>, <<"t", "-", "x">>}

\* a string value reaches process_pipelineparam (lines 431, 537, 544)
ProcessString ==
  /\ rpc = "string"
  /\ once' = process_pipelineparam(StringOf(pieces))
  /\ rpc' = "once"
  /\ UNCHANGED <<pieces, twice, param, pipeline_param_names, rewritten>>
  /\ UNCHANGED notRewriteVars

\* the rewritten string is rewritten again
ProcessAgain ==
  /\ rpc = "once"
  /\ twice' = process_pipelineparam(once)
  /\ rpc' = "twice"
  /\ UNCHANGED <<pieces, once, param, pipeline_param_names, rewritten>>
  /\ UNCHANGED notRewriteVars

\* lines 420-428
AddOnGroupParam ==
  /\ rpc = "object"
  /\ rewritten' = [place |-> "addon", value |-> RewriteIsNone(param)]
  /\ rpc' = "rewritten"
  /\ UNCHANGED <<pieces, once, twice, param, pipeline_param_names>>
  /\ UNCHANGED notRewriteVars

\* lines 495-505
LoopSource ==
  /\ rpc = "object"
  /\ rewritten' = [place |-> "loop source", value |-> RewriteIsNone(param)]
  /\ rpc' = "rewritten"
  /\ UNCHANGED <<pieces, once, twice, param, pipeline_param_names>>
  /\ UNCHANGED notRewriteVars

\* lines 526-533
LoopItem ==
  /\ rpc = "object"
  /\ rewritten' = [place |-> "loop item", value |-> RewriteIsNone(param)]
  /\ rpc' = "rewritten"
  /\ UNCHANGED <<pieces, once, twice, param, pipeline_param_names>>
  /\ UNCHANGED notRewriteVars

\* lines 565-586
RangeParameter ==
  /\ rpc = "object"
  /\ rewritten' = [place |-> "range", value |-> process_parameter(param)]
  /\ rpc' = "rewritten"
  /\ UNCHANGED <<pieces, once, twice, param, pipeline_param_names>>
  /\ UNCHANGED notRewriteVars

\* lines 1168-1181
ConditionOperand ==
  /\ rpc = "object"
  /\ rewritten' = [place |-> "condition", value |-> process_parameter(param)]
  /\ rpc' = "rewritten"
  /\ UNCHANGED <<pieces, once, twice, param, pipeline_param_names>>
  /\ UNCHANGED notRewriteVars

\* lines 1299-1320
CustomTaskParam ==
  /\ rpc = "object"
  /\ rewritten' = [place |-> "custom task", value |-> CustomTaskValue(param, pipeline_param_names)]
  /\ rpc' = "rewritten"
  /\ UNCHANGED <<pieces, once, twice, param, pipeline_param_names>>
  /\ UNCHANGED notRewriteVars

\* lines 1327-1333: the parameter of a regular task that is named after the
\* full name of pp, pp being an input of the task
RegularTaskValue(pp, names) ==
  LET tp_name == full_name(pp)
  IN IF tp_name \in names
     THEN <<PARAMS>> \o tp_name \o <<RPAR>>
     ELSE <<TASKS>> \o (IF pp.op_name = <<>> THEN <<"None">> ELSE pp.op_name) \o
          <<RESULTS>> \o pp.name \o <<RPAR>>

\* lines 1325-1343
RegularTaskParam ==
  /\ rpc = "object"
  /\ rewritten' = [place |-> "regular task", value |-> RegularTaskValue(param, pipeline_param_names)]
  /\ rpc' = "rewritten"
  /\ UNCHANGED <<pieces, once, twice, param, pipeline_param_names>>
  /\ UNCHANGED notRewriteVars

NextRewrite ==
  \/ ProcessString \/ ProcessAgain
  \/ AddOnGroupParam \/ LoopSource \/ LoopItem
  \/ RangeParameter \/ ConditionOperand \/ CustomTaskParam
  \/ RegularTaskParam

(***************************************************************************)
(* Propagation of when predicates along runAfter.                          *)
(***************************************************************************)
\* workflow['spec']['pipelineSpec']['tasks'], in list order
TaskList == <<"t1", "t2", "t3", "t4">>
WTasks == Range(TaskList)

\* the evaluator tasks of the two condition groups; a predicate is named by
\* the evaluator whose result its input reads
Evaluators == {"condition-1", "condition-2"}
Conditions == Evaluators

\* list objects: one per condition group (condition_refs[group]) and one that
\* setdefault('when', []) may create per task
ConditionList(c) == IF c = "condition-1" THEN 1 ELSE 2
NewList(t) == 2 + CHOOSE k \in 1..Len(TaskList) : TaskList[k] = t
ListIds == 1 .. 2 + Len(TaskList)

Edges == {e \in WTasks \X WTasks : e[1] # e[2]}

\* tasks reachable through at most k runAfter edges
RECURSIVE ReachWithin(_, _, _)
ReachWithin(ra, t, k) ==
  IF k = 0 THEN {}
  ELSE ra[t] \cup UNION {ReachWithin(ra, u, k - 1) : u \in ra[t]}

Reach(ra, t) == ReachWithin(ra, t, Len(TaskList))

Acyclic(ra) == \A t \in WTasks : t \notin Reach(ra, t)

\* the list task['when'] evaluates to; [] when the key is absent
WhenOf(refs, lists, t) == IF refs[t] = 0 THEN <<>> ELSE lists[refs[t]]

\* the task read by the input of a predicate
TaskInput(when_item) == when_item

\* the variant that copies whatever the loops are
RECURSIVE TakeOverAcrossLoops(_, _, _)
TakeOverAcrossLoops(mine, theirs, task) ==
  IF theirs = <<>> THEN mine
  ELSE LET when_item == Head(theirs)
       IN TakeOverAcrossLoops(IF when_item \notin Range(mine)
                              THEN Append(mine, when_item) ELSE mine,
                              Tail(theirs), task)

\* lines 1501-1511: the predicates of t['when'] that task takes over
RECURSIVE TakeOver(_, _, _)
TakeOver(mine, theirs, task) ==
  IF theirs = <<>> THEN mine
  ELSE LET when_item == Head(theirs)
           add_conditions ==
             ~(task \in loop_task_list /\ TaskInput(when_item) \notin loop_task_list)
       IN TakeOver(IF when_item \notin Range(mine) /\ add_conditions
                   THEN Append(mine, when_item) ELSE mine,
                   Tail(theirs), task)

\* lines 1495-1511: populate_runafter_condition(task), over the tasks ts that
\* are still to be looked at; the result is the pair of when_ref and when_lists
RECURSIVE populate_runafter_condition(_, _, _, _)
populate_runafter_condition(refs, lists, task, ts) ==
  IF ts = <<>> THEN <<refs, lists>>
  ELSE LET t == Head(ts)
       IN IF t \in runAfter[task] /\ WhenOf(refs, lists, t) # <<>>
          THEN LET refs1 == IF refs[task] = 0
                            THEN [refs EXCEPT ![task] = NewList(task)] ELSE refs
                   mine == TakeOver(lists[refs1[task]], lists[refs1[t]], task)
               IN populate_runafter_condition(
                    refs1, [lists EXCEPT ![refs1[task]] = mine], task, Tail(ts))
          ELSE populate_runafter_condition(refs, lists, task, Tail(ts))

SelectSeq2(seq, S) == SelectSeq(seq, LAMBDA x : x \in S)

\* lines 315-323 and 360-377: the task list of a loop group that has the
\* condition group condition-1 and the tasks inside as children: the names of
\* its child tasks, of the condition group (the name of its evaluator task)
\* and of the tasks in the condition group
LoopTaskList(cond, inside) ==
  {"condition-1"} \cup {t \in WTasks : cond[t] = "condition-1"}
                  \cup {t \in inside : cond[t] = "none"}

IdleWhen ==
  /\ qpc = "idle"
  /\ in_condition = <<>>
  /\ runAfter = <<>>
  /\ loop_task_list = {}
  /\ when_ref = <<>>
  /\ when_lists = <<>>
  /\ task_queue = <<>>
  /\ visited_tasks = <<>>
  /\ populated = <<>>

\* the variant that attaches no predicate to a task in a condition group
WhenOfNoGroup(cond, t) == 0

\* lines 1211-1214: the list object of the condition group directly around
\* the task, when there is one
WhenOfGroup(cond, t) == IF cond[t] = "none" THEN 0 ELSE ConditionList(cond[t])

\* lines 995-1001 have built the list of predicates of every condition group;
\* the condition groups lie directly in the pipeline or in the loop
InitWhen ==
  /\ qpc = "attach"
  /\ in_condition \in [WTasks -> Conditions \cup {"none"}]
  /\ \E es \in SUBSET Edges :
       /\ Cardinality(es) <= MaxEdges
       /\ runAfter = [t \in WTasks |-> {u \in WTasks : <<t, u>> \in es}]
  /\ \E inside \in {{}, {"t1", "t2"}} :
       loop_task_list \in {{}, LoopTaskList(in_condition, inside)}
  /\ when_ref = [t \in WTasks |-> 0]
  /\ when_lists = [l \in ListIds |->
                     IF l = 1 THEN <<"condition-1">>
                     ELSE IF l = 2 THEN <<"condition-2">> ELSE <<>>]
  /\ task_queue = <<>>
  /\ visited_tasks = [t \in WTasks |-> -1]
  /\ populated = <<>>

\* lines 1209-1250: every task directly inside a condition group refers to
\* that group's list of predicates, and runAfter is set; lines 1514-1519 build
\* the queue
AttachWhen ==
  /\ qpc = "attach"
  /\ when_ref' = [t \in WTasks |-> WhenOfGroup(in_condition, t)]
  /\ task_queue' = SelectSeq2(TaskList, {t \in WTasks : runAfter[t] # {}})
  /\ qpc' = IF task_queue' = <<>> THEN "done" ELSE "queue"
  /\ UNCHANGED <<in_condition, runAfter, loop_task_list, when_lists, visited_tasks, populated>>
  /\ UNCHANGED notWhenVars

\* the variant without the visited_tasks guard
MustWaitUnguarded(popped_task, rest) ==
  \E k \in 1..Len(rest) : rest[k] \in runAfter[popped_task]

\* lines 1521-1528: a run-after predecessor is still queued, and the queue is
\* not as long as when the task was last put back
MustWait(popped_task, rest) ==
  /\ \E k \in 1..Len(rest) : rest[k] \in runAfter[popped_task]
  /\ Len(rest) # visited_tasks[popped_task]

\* lines 1520-1528: the popped task goes back to the end of the queue
Requeue ==
  /\ qpc = "queue"
  /\ LET popped_task == Head(task_queue)
         rest == Tail(task_queue)
     IN /\ MustWait(popped_task, rest)
        /\ visited_tasks' = [visited_tasks EXCEPT ![popped_task] = Len(rest)]
        /\ task_queue' = Append(rest, popped_task)
  /\ UNCHANGED <<qpc, in_condition, runAfter, loop_task_list, when_ref, when_lists, populated>>
  /\ UNCHANGED notWhenVars

\* the variant that populates the popped task whoever is still queued
PopulateAtOnce ==
  /\ qpc = "queue"
  /\ LET popped_task == Head(task_queue)
         rest == Tail(task_queue)
         after == populate_runafter_condition(when_ref, when_lists, popped_task, TaskList)
     IN /\ when_ref' = after[1]
        /\ when_lists' = after[2]
        /\ task_queue' = rest
        /\ populated' = Append(populated, popped_task)
        /\ qpc' = IF rest = <<>> THEN "done" ELSE "queue"
  /\ UNCHANGED <<in_condition, runAfter, loop_task_list, visited_tasks>>
  /\ UNCHANGED notWhenVars

\* lines 1520-1531: the popped task is populated
Populate ==
  /\ qpc = "queue"
  /\ LET popped_task == Head(task_queue)
         rest == Tail(task_queue)
         after == populate_runafter_condition(when_ref, when_lists, popped_task, TaskList)
     IN /\ ~MustWait(popped_task, rest)
        /\ when_ref' = after[1]
        /\ when_lists' = after[2]
        /\ task_queue' = rest
        /\ populated' = Append(populated, popped_task)
        /\ qpc' = IF rest = <<>> THEN "done" ELSE "queue"
  /\ UNCHANGED <<in_condition, runAfter, loop_task_list, visited_tasks>>
  /\ UNCHANGED notWhenVars

NextWhen == AttachWhen \/ Requeue \/ Populate

(***************************************************************************)
(* Assembly of the pipeline document: the templates of the condition       *)
(* groups, the task and evaluator references, the operands of the          *)
(* evaluator, and the main and finally lists (lines 236-249, 968-1206 and  *)
(* 1360-1401).  There is one condition group, condition-1, and three ops.  *)
(***************************************************************************)
OpT == <<"t">>
OpK == <<"k">>
OpE == <<"e">>
\* pipeline.ops: the ops by name
PipelineOps == <<OpT, OpK, OpE>>
ConditionName == <<"condition-1">>
\* DEFAULT_CONDITION_OUTPUT_KEYWORD
OutputKeyword == <<"outcome">>

\* a condition operand: a constant or a dsl.PipelineParam
Literal == [type |-> "str", op_name |-> <<>>, name |-> <<>>, value |-> <<"1">>]
OperandParams ==
  {[type |-> "PipelineParam", op_name |-> o, name |-> n, value |-> <<>>] :
     o \in {<<>>, OpT, OpK}, n \in ParamNames}
Operands == {Literal} \cup OperandParams
Operators == {"==", "!=", ">"}

\* lines 172-192
_resolve_value_or_reference(value_or_reference, potential_references) ==
  IF value_or_reference.type = "PipelineParam"
  THEN LET parameter_name == full_name(value_or_reference)
           task_names == {r[2] : r \in {q \in potential_references : q[1] = parameter_name}}
       IN IF task_names # {}
          THEN LET task_name == CHOOSE n \in task_names : TRUE
               IN IF task_name = <<>>
                  THEN <<PARAMS>> \o parameter_name \o <<RPAR>>
                  ELSE <<PARAMS>> \o task_name \o <<RPAR>>
          ELSE <<PARAMS>> \o parameter_name \o <<RPAR>>
  ELSE value_or_reference.value

\* inputs[group_name] of the condition group: the operands that are references,
\* each with its producer (<<>> for None)
GroupInputs(cond) ==
  {<<full_name(o), o.op_name>> : o \in {cond.operand1, cond.operand2} \cap OperandParams}

\* lines 236-249: template['spec']['params'] of a condition group
ConditionParams(cond, inputs) ==
  << [name |-> "operand1", value |-> _resolve_value_or_reference(cond.operand1, inputs),
      type |-> cond.operand1.type, op_name |-> cond.operand1.op_name,
      output_name |-> cond.operand1.name],
     [name |-> "operand2", value |-> _resolve_value_or_reference(cond.operand2, inputs),
      type |-> cond.operand2.type, op_name |-> cond.operand2.op_name,
      output_name |-> cond.operand2.name],
     [name |-> "operator", value |-> <<cond.operator>>, type |-> "str", op_name |-> <<>>,
      output_name |-> <<>>] >>

\* lines 1011-1018: the operand is an output of a task whose main step runs a
\* custom task image
is_custom_task_output(operand, custom) ==
  operand.type = "PipelineParam" /\ operand.op_name \in custom

\* lines 1020-1026, for an operand whose producer can be sanitized
map_cel_vars(a) ==
  IF a.type = "PipelineParam"
  THEN <<TASKS>> \o SanitizeName(a.op_name) \o <<RESULTS>> \o SanitizeCap(a.output_name)
       \o <<RPAR>>
  ELSE a.value

\* lines 1020-1022: sanitize_k8s_name is handed None
MapsNone(a) == a.type = "PipelineParam" /\ a.op_name = <<>>

conditionOp_mapping(op) == IF op = "==" THEN "in" ELSE "notin"

\* lines 995-1001
EvaluatorPredicate(name) ==
  [input |-> <<TASKS>> \o name \o <<RESULTS>> \o OutputKeyword \o <<RPAR>>,
   operator |-> "in", values |-> << <<"true">> >>]

\* lines 1008 and 1019
IsStringCondition(params, custom) ==
  /\ params[3].value[1] \in {"==", "!="}
  /\ is_custom_task_output(params[1], custom) \/ is_custom_task_output(params[2], custom)

\* lines 1165-1181
input_params(cond) ==
  (IF cond.operand1.type = "PipelineParam" THEN <<process_parameter(cond.operand1)>> ELSE <<>>)
  \o (IF cond.operand2.type = "PipelineParam" THEN <<process_parameter(cond.operand2)>> ELSE <<>>)

NoCondition == [operand1 |-> Literal, operand2 |-> Literal, operator |-> "none"]
NoTaskRef == [name |-> <<>>, params |-> <<>>]

IdleAssemble ==
  /\ apc = "idle"
  /\ condition = NoCondition
  /\ subgroup_inputs = {}
  /\ custom_ops = {}
  /\ exit_handlers = {}
  /\ template_params = <<>>
  /\ condition_task_ref = NoTaskRef
  /\ condition_refs = <<>>
  /\ string_condition_refs = FALSE
  /\ task_refs = <<>>
  /\ pipeline_tasks = <<>>
  /\ finally_tasks = <<>>
  /\ assemble_error = NoError

\* the pipeline: one condition group, the ops that run a custom task image and
\* the ops that are exit handlers
InitAssemble ==
  /\ apc = "groups"
  /\ condition \in [operand1 : Operands, operand2 : Operands, operator : Operators]
  /\ subgroup_inputs \in {{}, GroupInputs(condition)}
  /\ custom_ops \in SUBSET {OpK}
  /\ exit_handlers \in SUBSET {OpT, OpE}
  /\ template_params = <<>>
  /\ condition_task_ref = NoTaskRef
  /\ condition_refs = <<>>
  /\ string_condition_refs = FALSE
  /\ task_refs = <<>>
  /\ pipeline_tasks = <<>>
  /\ finally_tasks = <<>>
  /\ assemble_error = NoError

\* lines 236-249
ConditionTemplate ==
  /\ apc = "groups"
  /\ template_params' = ConditionParams(condition, subgroup_inputs)
  /\ apc' = "templates"
  /\ UNCHANGED <<condition, subgroup_inputs, custom_ops, exit_handlers, condition_task_ref,
                 condition_refs, string_condition_refs, task_refs, pipeline_tasks,
                 finally_tasks, assemble_error>>
  /\ UNCHANGED notAssembleVars

\* lines 976-1153: the references of the tasks and of the evaluator
TaskReferences ==
  /\ apc = "templates"
  /\ ~(IsStringCondition(template_params, custom_ops)
       /\ (MapsNone(template_params[1]) \/ MapsNone(template_params[2])))
  /\ condition_task_ref' =
       [name |-> ConditionName,
        params |-> [k \in 1..3 |-> template_params[k].value]]
  /\ IF IsStringCondition(template_params, custom_ops)
     THEN /\ condition_refs' =
               << [input |-> map_cel_vars(template_params[1]),
                   operator |-> conditionOp_mapping(template_params[3].value[1]),
                   values |-> <<map_cel_vars(template_params[2])>>] >>
          /\ string_condition_refs' = TRUE
     ELSE /\ condition_refs' = <<EvaluatorPredicate(ConditionName)>>
          /\ string_condition_refs' = FALSE
  /\ task_refs' = PipelineOps
  /\ apc' = "refs"
  /\ UNCHANGED <<condition, subgroup_inputs, custom_ops, exit_handlers, template_params,
                 pipeline_tasks, finally_tasks, assemble_error>>
  /\ UNCHANGED notAssembleVars

\* lines 1020-1034 when one operand of a string condition is a pipeline
\* parameter: sanitize_k8s_name(None) raises, or treats None as text
TaskReferencesOfNone ==
  /\ apc = "templates"
  /\ IsStringCondition(template_params, custom_ops)
  /\ MapsNone(template_params[1]) \/ MapsNone(template_params[2])
  /\ \/ /\ apc' = "failed"
        /\ assemble_error' = "AttributeError"
        /\ UNCHANGED <<condition_task_ref, condition_refs, string_condition_refs, task_refs>>
     \/ /\ apc' = "refs"
        /\ condition_task_ref' =
             [name |-> ConditionName,
              params |-> [k \in 1..3 |-> template_params[k].value]]
        /\ condition_refs' =
             << [input |-> map_cel_vars(template_params[1]),
                 operator |-> conditionOp_mapping(template_params[3].value[1]),
                 values |-> <<map_cel_vars(template_params[2])>>] >>
        /\ string_condition_refs' = TRUE
        /\ task_refs' = PipelineOps
        /\ UNCHANGED assemble_error
  /\ UNCHANGED <<condition, subgroup_inputs, custom_ops, exit_handlers, template_params,
                 pipeline_tasks, finally_tasks>>
  /\ UNCHANGED notAssembleVars

\* lines 1182-1193: input_params[param_iter] goes to params[param_iter]
AssignByPosition(params, cond) ==
  [k \in 1..3 |-> IF k <= Len(input_params(cond)) THEN input_params(cond)[k] ELSE params[k]]

\* lines 1162-1193
ResolveConditionOperands ==
  /\ apc = "refs"
  /\ condition_task_ref' =
       [condition_task_ref EXCEPT !.params = AssignByPosition(@, condition)]
  /\ apc' = "resolved"
  /\ UNCHANGED <<condition, subgroup_inputs, custom_ops, exit_handlers, template_params,
                 condition_refs, string_condition_refs, task_refs, pipeline_tasks,
                 finally_tasks, assemble_error>>
  /\ UNCHANGED notAssembleVars

\* the variant that leaves the exit handlers in the main list
MainTasksWithExitHandlers(refs, handlers) == refs

\* line 1366
MainTasks(refs, handlers) ==
  SelectSeq(refs, LAMBDA name : name \in Range(PipelineOps) /\ name \notin handlers)

\* lines 1362-1365
FinallyTasks(refs, handlers) ==
  SelectSeq(refs, LAMBDA name : name \in Range(PipelineOps) /\ name \in handlers)

\* the variant that keeps the evaluator of a string condition
FlattenAll(ref, is_string) == <<ref.name>>

\* lines 1368-1374
FlattenConditions(ref, is_string) == IF is_string THEN <<>> ELSE <<ref.name>>

\* lines 1360-1374 and 1397-1401
SplitExitHandlers ==
  /\ apc = "resolved"
  /\ finally_tasks' = FinallyTasks(task_refs, exit_handlers)
  /\ pipeline_tasks' = MainTasks(task_refs, exit_handlers)
                       \o FlattenConditions(condition_task_ref, string_condition_refs)
  /\ apc' = "assembled"
  /\ UNCHANGED <<condition, subgroup_inputs, custom_ops, exit_handlers, template_params,
                 condition_task_ref, condition_refs, string_condition_refs, task_refs,
                 assemble_error>>
  /\ UNCHANGED notAssembleVars

NextAssemble ==
  \/ ConditionTemplate
  \/ TaskReferences
  \/ TaskReferencesOfNone
  \/ ResolveConditionOperands
  \/ SplitExitHandlers

(***************************************************************************)
(* Inlining of the custom task documents (prepare_workflow, lines          *)
(* 1800-1870, and _inline_tasks, lines 1959-1992).  A task is an object:   *)
(* inlining changes it in place, and the taskSpec it gets holds the spec   *)
(* object of the document, not a copy, so a task of a document is the same *)
(* object wherever the document's body has been inlined.                   *)
(***************************************************************************)
\* custom_opsgroup_crs as _handle_tekton_custom_task returns it, by name
Crs == <<"cr1", "cr2", "cr3">>
CrNames == Range(Crs)

\* the tasks of the main document and of the custom task documents
DocTasks(doc) ==
  CASE doc = "main" -> <<"m1", "m2">>
    [] doc = "cr1" -> <<"a">>
    [] doc = "cr2" -> <<"b">>
    [] doc = "cr3" -> <<"c">>
InlineTasks == {"m1", "m2", "a", "b", "c"}

\* the variant that inlines references to recursive documents too
IsInlinedAlways(name, recursive_tasks) == name \in CrNames

\* lines 1973-1979: the taskRef names a document in crs and no recursive task
IsInlined(name, recursive_tasks) == name \in CrNames /\ name \notin recursive_tasks

\* lines 1959-1992: the taskRef and the taskSpec of every task, and the names
\* inlined, after the scan of tasks
RECURSIVE _inline_tasks(_, _, _, _)
_inline_tasks(tasks, recursive_tasks, refs, specs) ==
  IF tasks = <<>> THEN <<refs, specs, <<>> >>
  ELSE LET j == Head(tasks)
           name == refs[j]
       IN IF name # "none" /\ IsInlined(name, recursive_tasks)
          THEN LET rest == _inline_tasks(Tail(tasks), recursive_tasks,
                                         [refs EXCEPT ![j] = "none"],
                                         [specs EXCEPT ![j] = name])
               IN <<rest[1], rest[2], <<name>> \o rest[3]>>
          ELSE _inline_tasks(Tail(tasks), recursive_tasks, refs, specs)

\* the variant of step 1 that scans no document
SkipsPipelineSpec(cr, without) == FALSE

\* line 1816
HasPipelineSpec(cr, without) == cr \notin without

\* line 1869
Standalone(crs, inlined) == SelectSeq(crs, LAMBDA name : name \notin Range(inlined))

IdleInline ==
  /\ ipc = "idle"
  /\ tekton_inline_spec = FALSE
  /\ recursive_tasks_names = {}
  /\ without_pipeline_spec = {}
  /\ taskRef = <<>>
  /\ taskSpec = <<>>
  /\ inline_i = 0
  /\ inlined_as_taskSpec = <<>>
  /\ custom_opsgroup_crs = <<>>

\* the documents as _handle_tekton_custom_task returns them: every task refers
\* by name to one of the documents or to none, whatever the order and the
\* depth of the references
InitInline ==
  /\ ipc = "step1"
  /\ tekton_inline_spec \in BOOLEAN
  /\ recursive_tasks_names \in SUBSET CrNames
  /\ without_pipeline_spec \in SUBSET {"cr3"}
  /\ taskRef \in [InlineTasks -> CrNames \cup {"none"}]
  /\ "cr3" \in without_pipeline_spec => taskRef["c"] = "none"
  /\ taskSpec = [t \in InlineTasks |-> "none"]
  /\ inline_i = 1
  /\ inlined_as_taskSpec = <<>>
  /\ custom_opsgroup_crs = Crs

\* lines 1813 and 1870: nothing is inlined when tekton_inline_spec is off
KeepReferences ==
  /\ ipc = "step1"
  /\ ~tekton_inline_spec
  /\ ipc' = "done"
  /\ UNCHANGED <<tekton_inline_spec, recursive_tasks_names, without_pipeline_spec, taskRef,
                 taskSpec, inline_i, inlined_as_taskSpec, custom_opsgroup_crs>>
  /\ UNCHANGED notInlineVars

\* lines 1815-1825: step 1, for the document custom_opsgroup_crs[i]
InlineCr ==
  /\ ipc = "step1"
  /\ tekton_inline_spec
  /\ inline_i <= Len(custom_opsgroup_crs)
  /\ LET cr == custom_opsgroup_crs[inline_i]
         te == _inline_tasks(DocTasks(cr), recursive_tasks_names, taskRef, taskSpec)
     IN IF HasPipelineSpec(cr, without_pipeline_spec)
        THEN /\ taskRef' = te[1]
             /\ taskSpec' = te[2]
             /\ inlined_as_taskSpec' = inlined_as_taskSpec \o te[3]
        ELSE UNCHANGED <<taskRef, taskSpec, inlined_as_taskSpec>>
  /\ inline_i' = inline_i + 1
  /\ UNCHANGED <<ipc, tekton_inline_spec, recursive_tasks_names, without_pipeline_spec,
                 custom_opsgroup_crs>>
  /\ UNCHANGED notInlineVars

\* lines 1826-1829 and 1869: step 2, and the documents that stay standalone
InlineWorkflow ==
  /\ ipc = "step1"
  /\ tekton_inline_spec
  /\ inline_i > Len(custom_opsgroup_crs)
  /\ LET te == _inline_tasks(DocTasks("main"), recursive_tasks_names, taskRef, taskSpec)
     IN /\ taskRef' = te[1]
        /\ taskSpec' = te[2]
        /\ inlined_as_taskSpec' = inlined_as_taskSpec \o te[3]
        /\ custom_opsgroup_crs' = Standalone(custom_opsgroup_crs, inlined_as_taskSpec')
  /\ ipc' = "done"
  /\ UNCHANGED <<tekton_inline_spec, recursive_tasks_names, without_pipeline_spec, inline_i>>
  /\ UNCHANGED notInlineVars

NextInline == KeepReferences \/ InlineCr \/ InlineWorkflow

(***************************************************************************)
(* The parameter list of a graph, loop or add-on group (lines 325-350,     *)
(* 380-394, 417-451 and 452-592).  A parameter is its name and its value.  *)
(***************************************************************************)
JustOneIteration == <<"just_one_iteration">>
LoopArgs == <<"loop-item-param-1">>
From == <<"from">>
To == <<"to">>
Step == <<"step">>
AddOnKey == <<"A", SP, "b">>

\* inputs[sub_group.name]: (full name, producing group or None (here <<>>))
GroupInputTuples ==
  { <<LoopArgs, <<>> >>, <<JustOneIteration, <<>> >>, <<To, <<>> >>, <<Step, <<>> >>,
    << <<"x">>, <<>> >>, << <<"A", "-", "b">>, <<>> >>, << <<"t", "-", "x">>, <<"t">> >> }

\* str.replace(old, '', 1)
RECURSIVE ReplaceFirst(_, _, _)
ReplaceFirst(s, i, old) ==
  IF i > Len(s) THEN <<>>
  ELSE IF StartsWith(s, i, old) THEN SubSeq(s, i + Len(old), Len(s))
  ELSE <<s[i]>> \o ReplaceFirst(s, i + 1, old)

\* lines 340-349 and 384-394: the parameter made from one input
InputParam(p) ==
  IF p[2] # <<>>
  THEN [name |-> p[1],
        value |-> <<TASKS>> \o p[2] \o <<RESULTS>> \o
                  SanitizeCap(ReplaceFirst(p[1], 1, p[2] \o <<"-">>)) \o <<RPAR>>]
  ELSE [name |-> p[1], value |-> <<PARAMS>> \o p[1] \o <<RPAR>>]

\* lines 380-394
RECURSIVE input_helper(_, _, _)
input_helper(params, ins, param_list) ==
  IF ins = <<>> THEN params
  ELSE input_helper(
         IF Head(ins)[1] \notin param_list THEN Append(params, InputParam(Head(ins)))
         ELSE params,
         Tail(ins), param_list)

\* lines 337-350: a graph group takes every input
RECURSIVE GraphInputs(_, _)
GraphInputs(params, ins) ==
  IF ins = <<>> THEN params
  ELSE GraphInputs(Append(params, InputParam(Head(ins))), Tail(ins))

\* lines 571-587: from, to and step of a range loop
RangeParams(has_start, has_step) ==
  IF ~has_start THEN <<>>
  ELSE <<[name |-> From, value |-> <<"1">>], [name |-> To, value |-> <<"2">>]>> \o
       (IF has_step THEN <<[name |-> Step, value |-> <<"1">>]>> ELSE <<>>)

IdleParams ==
  /\ ppc = "idle"
  /\ group_inputs = <<>>
  /\ range_loop = <<FALSE, FALSE>>
  /\ group_params = <<>>

\* the inputs of the group, in the order the set is iterated; whether a loop
\* has start and end, and step
InitParams ==
  /\ ppc = "group"
  /\ group_inputs \in {s \in SeqsUpTo(GroupInputTuples, MaxGroupInputs) : NoRepeat(s)}
  /\ range_loop \in {<<FALSE, FALSE>>, <<TRUE, FALSE>>, <<TRUE, TRUE>>}
  /\ group_params = <<>>

\* lines 251-254 and 325-350: a graph group that is no recursion
LowerGraph ==
  /\ ppc = "group"
  /\ group_params' = GraphInputs(<<[name |-> JustOneIteration, value |-> <<"1">>]>>, group_inputs)
  /\ ppc' = "graph"
  /\ UNCHANGED <<group_inputs, range_loop>>
  /\ UNCHANGED notParamsVars

\* lines 452-592: a loop over a list of constants
LowerLoop ==
  /\ ppc = "group"
  /\ group_params' =
       input_helper(<<[name |-> LoopArgs, value |-> <<"1">>]>> \o
                    RangeParams(range_loop[1], range_loop[2]),
                    group_inputs, {LoopArgs})
  /\ ppc' = "loop"
  /\ UNCHANGED <<group_inputs, range_loop>>
  /\ UNCHANGED notParamsVars

\* lines 417-451: an add-on group with the one parameter AddOnKey
LowerAddOn ==
  /\ ppc = "group"
  /\ group_params' =
       input_helper(<<[name |-> sanitize_k8s_name(AddOnKey, TRUE, FALSE, FALSE, FALSE),
                       value |-> <<"1">>]>>,
                    group_inputs, {AddOnKey})
  /\ ppc' = "addon"
  /\ UNCHANGED <<group_inputs, range_loop>>
  /\ UNCHANGED notParamsVars

NextParams == LowerGraph \/ LowerLoop \/ LowerAddOn

(***************************************************************************)
(* Sanitization of the op names (_sanitize_and_inject_artifact, lines      *)
(* 1535-1578).  An op is known by its place in pipeline.ops.               *)
(***************************************************************************)
\* a name of 58 characters
LongName == <<"w58">>
\* "a 2" is the name kfp gives to the second op called "a"
OpNames == {<<"a">>, <<"A">>, <<"a", SP, "2">>, <<"a", "-", "2">>, <<"a", "_", "b">>,
            <<"a", "-", "b">>, LongName}

\* len(op.name)
NameLength(name) == IF name = LongName THEN 58 ELSE Len(name)

\* lines 1539-1546 and 1577: sanitized_ops[sanitized_name] = op, for the ops
\* from place k on; a name that is already a key gets the later op
RECURSIVE SanitizedOps(_, _, _)
SanitizedOps(ops, k, done) ==
  IF k > Len(ops) THEN done
  ELSE LET sanitized_name == SanitizeName(ops[k])
           at == {i \in 1..Len(done) : done[i].name = sanitized_name}
       IN SanitizedOps(ops, k + 1,
            IF at = {} THEN Append(done, [name |-> sanitized_name, op |-> k])
            ELSE [done EXCEPT ![CHOOSE i \in at : TRUE].op = k])

\* line 1542
TooLong(ops) == \E k \in 1..Len(ops) : NameLength(ops[k]) > 57

IdleSanitize ==
  /\ spc = "idle"
  /\ dsl_ops = <<>>
  /\ sanitized_ops = <<>>
  /\ sanitize_error = NoError

\* pipeline.ops is a dict: its keys, the op names, are distinct
InitSanitize ==
  /\ spc = "ops"
  /\ dsl_ops \in {s \in SeqsUpTo(OpNames, MaxOps) : NoRepeat(s)}
  /\ sanitized_ops = <<>>
  /\ sanitize_error = NoError

\* lines 1541-1578
SanitizeOps ==
  /\ spc = "ops"
  /\ ~TooLong(dsl_ops)
  /\ sanitized_ops' = SanitizedOps(dsl_ops, 1, <<>>)
  /\ spc' = "sanitized"
  /\ UNCHANGED <<dsl_ops, sanitize_error>>
  /\ UNCHANGED notSanitizeVars

\* lines 1542-1544
RejectLongName ==
  /\ spc = "ops"
  /\ TooLong(dsl_ops)
  /\ sanitize_error' = "ValueError"
  /\ spc' = "failed"
  /\ UNCHANGED <<dsl_ops, sanitized_ops>>
  /\ UNCHANGED notSanitizeVars

NextSanitize == SanitizeOps \/ RejectLongName

(***************************************************************************)
(* Workspaces: those the task templates use (lines 1048-1053) and those    *)
(* the pipeline configuration declares (lines 1669-1688).                  *)
(***************************************************************************)
Workspaces == {"w1", "w2", "w3"}

\* line 1686
MissingWorkspaces(used, names) == used \ names

IdleWorkspace ==
  /\ kpc = "idle"
  /\ pipeline_workspaces = {}
  /\ template_workspaces = {}
  /\ task_workspaces = {}
  /\ workspace_list = {}
  /\ workspace_error = NoError

InitWorkspace ==
  /\ kpc = "templates"
  /\ pipeline_workspaces \in SUBSET Workspaces
  /\ template_workspaces \in SUBSET Workspaces
  /\ task_workspaces = {}
  /\ workspace_list = {}
  /\ workspace_error = NoError

\* lines 1048-1053: every workspace of a task template is noted as used
NoteTaskWorkspaces ==
  /\ kpc = "templates"
  /\ task_workspaces' = template_workspaces
  /\ kpc' = "refs"
  /\ UNCHANGED <<pipeline_workspaces, template_workspaces, workspace_list, workspace_error>>
  /\ UNCHANGED notWorkspaceVars

\* lines 1669-1687: the declared workspaces are injected, and every used
\* workspace is among them
InjectWorkspaces ==
  /\ kpc = "refs"
  /\ MissingWorkspaces(task_workspaces, pipeline_workspaces) = {}
  /\ workspace_list' = pipeline_workspaces
  /\ kpc' = "injected"
  /\ UNCHANGED <<pipeline_workspaces, template_workspaces, task_workspaces, workspace_error>>
  /\ UNCHANGED notWorkspaceVars

\* lines 1684-1687: a used workspace is not declared
RejectMissingWorkspace ==
  /\ kpc = "refs"
  /\ MissingWorkspaces(task_workspaces, pipeline_workspaces) # {}
  /\ workspace_list' = pipeline_workspaces
  /\ workspace_error' = "ValueError"
  /\ kpc' = "failed"
  /\ UNCHANGED <<pipeline_workspaces, template_workspaces, task_workspaces>>
  /\ UNCHANGED notWorkspaceVars

NextWorkspace == NoteTaskWorkspaces \/ InjectWorkspaces \/ RejectMissingWorkspace

(***************************************************************************)
(* The validations of one process (_validate_workflow, lines 1995-2040).   *)
(* The default value of the parameter results_dict of _find_items is one   *)
(* dict, made when the function is defined; the search for names (line     *)
(* 2012) uses it, the searches for labels and annotations pass a new dict. *)
(***************************************************************************)
Paths == {"metadata.name", "spec.params[0].name", "spec.steps[0].name"}
ValidatedNames == {<<"a">>, <<"A">>, <<"a", SP>>}
Documents == UNION {[ps -> ValidatedNames] : ps \in SUBSET Paths}

\* lines 2001-2010: dict.update with the names found in the document
_find_items(obj, results) ==
  [p \in DOMAIN results \cup DOMAIN obj |-> IF p \in DOMAIN obj THEN obj[p] ELSE results[p]]

\* lines 2013-2014
NonCompliant(path, name) ==
  \/ path = "metadata.name" /\ name # sanitize_k8s_name(name, FALSE, FALSE, FALSE, FALSE)
  \/ path = "spec.params[0].name" /\ name # sanitize_k8s_name(name, TRUE, FALSE, FALSE, FALSE)

\* lines 2012-2014
non_k8s_names(found) == {p \in DOMAIN found : NonCompliant(p, found[p])}

IdleValidate ==
  /\ vpc = "idle"
  /\ results_dict = <<>>
  /\ document = <<>>
  /\ validation = "none"
  /\ validations = 0

\* the process starts: the module is loaded
InitValidate ==
  /\ vpc = "process"
  /\ results_dict = <<>>
  /\ document = <<>>
  /\ validation = "none"
  /\ validations = 0

\* lines 2012-2014 and 2033-2034: one more document is validated
ValidateDocument ==
  /\ vpc = "process"
  /\ validations < MaxValidations
  /\ \E doc \in Documents :
       /\ document' = doc
       /\ results_dict' = _find_items(doc, results_dict)
       /\ validation' = IF non_k8s_names(results_dict') # {} THEN "RuntimeError" ELSE "ok"
  /\ validations' = validations + 1
  /\ UNCHANGED vpc
  /\ UNCHANGED notValidateVars

NextValidate == ValidateDocument

(***************************************************************************)
(* Lowering of the groups (lines 661-680): every group is handed, with the *)
(* dependency map, to _group_to_dag_template.                              *)
(***************************************************************************)
MaxDependencies == 2

GraphGroup == "graph-1"
LoopGroup == "for-loop-2"
AddOnGroup == "addon-3"
ConditionGroup == "condition-4"
LoweredGroups == {GraphGroup, LoopGroup, AddOnGroup, ConditionGroup}
LoweredEntities == LoweredGroups \cup {"op"}

\* a dependency: down runs after up
DependencyEdges == {e \in LoweredEntities \X LoweredEntities : e[1] # e[2]}

\* lines 697, 723, 748: the map of the entities to the entities they run after
DependencyMap(edges) == [d \in LoweredEntities |-> {e[2] : e \in {x \in edges : x[1] = d}}]

\* lines 308-310, 355-357: the runAfter of the lowered group
RunAfterOf(deps, name) == deps[name]

\* lines 312, 358: the entities that depend on the lowered group
DependsOn(deps, name) == {d \in LoweredEntities : name \in deps[d]}

\* the variant that leaves the map as it is
KeepDependencies(deps, name) == deps

\* line 313: the name of the graph is removed from every entry of the map
RemoveFromDependencies(deps, name) == [d \in LoweredEntities |-> deps[d] \ {name}]

IdleLower ==
  /\ lpc = "idle"
  /\ dag_dependencies = <<>>
  /\ to_lower = {}
  /\ lowered_runAfter = <<>>
  /\ lowered_depends = <<>>
  /\ lowered_templates = {}

InitLower ==
  /\ lpc = "lowering"
  /\ \E edges \in SUBSET DependencyEdges :
       /\ Cardinality(edges) <= MaxDependencies
       /\ dag_dependencies = DependencyMap(edges)
  /\ to_lower = LoweredGroups
  /\ lowered_runAfter = [g \in LoweredGroups |-> {}]
  /\ lowered_depends = [g \in LoweredGroups |-> {}]
  /\ lowered_templates = {}

Lowered(g) ==
  /\ to_lower' = to_lower \ {g}
  /\ lpc' = IF to_lower = {g} THEN "lowered" ELSE "lowering"

\* lines 672-674, 229-249: a condition gets a template; the map is not read
LowerConditionGroup ==
  /\ lpc = "lowering"
  /\ ConditionGroup \in to_lower
  /\ lowered_templates' = lowered_templates \cup {ConditionGroup}
  /\ Lowered(ConditionGroup)
  /\ UNCHANGED <<dag_dependencies, lowered_runAfter, lowered_depends>>
  /\ UNCHANGED notLowerVars

\* lines 675-676, 417-451, 353-359: an extension group, through dep_helper
LowerAddOnGroup ==
  /\ lpc = "lowering"
  /\ AddOnGroup \in to_lower
  /\ lowered_runAfter' = [lowered_runAfter EXCEPT ![AddOnGroup] = RunAfterOf(dag_dependencies, AddOnGroup)]
  /\ lowered_depends' = [lowered_depends EXCEPT ![AddOnGroup] = DependsOn(dag_dependencies, AddOnGroup)]
  /\ Lowered(AddOnGroup)
  /\ UNCHANGED <<dag_dependencies, lowered_templates>>
  /\ UNCHANGED notLowerVars

\* lines 677-678, 452-479, 353-359: a loop, through dep_helper
LowerLoopGroup ==
  /\ lpc = "lowering"
  /\ LoopGroup \in to_lower
  /\ lowered_runAfter' = [lowered_runAfter EXCEPT ![LoopGroup] = RunAfterOf(dag_dependencies, LoopGroup)]
  /\ lowered_depends' = [lowered_depends EXCEPT ![LoopGroup] = DependsOn(dag_dependencies, LoopGroup)]
  /\ Lowered(LoopGroup)
  /\ UNCHANGED <<dag_dependencies, lowered_templates>>
  /\ UNCHANGED notLowerVars

\* lines 679-680, 296-316: a graph
LowerGraphGroup ==
  /\ lpc = "lowering"
  /\ GraphGroup \in to_lower
  /\ lowered_runAfter' = [lowered_runAfter EXCEPT ![GraphGroup] = RunAfterOf(dag_dependencies, GraphGroup)]
  /\ lowered_depends' = [lowered_depends EXCEPT ![GraphGroup] = DependsOn(dag_dependencies, GraphGroup)]
  /\ dag_dependencies' = RemoveFromDependencies(dag_dependencies, GraphGroup)
  /\ Lowered(GraphGroup)
  /\ UNCHANGED lowered_templates
  /\ UNCHANGED notLowerVars

NextLower == LowerConditionGroup \/ LowerAddOnGroup \/ LowerLoopGroup \/ LowerGraphGroup

(***************************************************************************)
(* The when-predicates of the loops and graphs (lines 1260-1272).  The     *)
(* groups are K1, K2 (conditions), L (a loop) and G (a graph), created in  *)
(* this order below the root group; a condition may be named by the user.  *)
(***************************************************************************)
PipelineName == <<"y">>
PipelineRoot == "root"
OpsGroups == <<"K1", "K2", "L", "G">>       \* in the order of their creation
OpsGroupIds == {OpsGroups[k] : k \in 1..Len(OpsGroups)}
ConditionGroups == {"K1", "K2"}
LoopsPipeline == {"L", "G"}                 \* the groups that self.loops_pipeline holds
NotSet == "not set"                       \* no key of the map
NoWhen == <<>>                              \* spec without a when

LoopName == <<"for", "-", "loop", "-", "3">>
GraphName == <<"graph", "-", "4">>
ConditionNames(id) ==
  {<<"condition", "-">> \o id} \cup
  {<<"condition", "-">> \o user \o <<"-">> \o id : user \in {LoopName, GraphName}}

\* _get_groups_for_opsgroups: the names from the root down to the group
RECURSIVE GroupPath(_, _, _)
GroupPath(par, names, g) ==
  IF g = PipelineRoot THEN <<PipelineName>>
  ELSE GroupPath(par, names, par[g]) \o <<names[g]>>

\* the groups from the root down to the group, the group included
RECURSIVE AncestorsOrSelf(_, _)
AncestorsOrSelf(par, g) ==
  IF g = PipelineRoot THEN {PipelineRoot} ELSE {g} \cup AncestorsOrSelf(par, par[g])

\* lines 217-224: the name of the loop or graph in self.loops_pipeline; the
\* names of the model are shorter than the limits, so nothing is cut off
LoopTaskKey(name) == SanitizeName(PipelineName) \o <<"-">> \o SanitizeName(name)

\* line 1263: '-'.join(self._group_names[:-1] + [""])
task_name_prefix == SanitizeName(PipelineName) \o <<"-">>

\* raw_task_key in key
IsSubstring(a, b) == \E i \in 1..Len(b) : StartsWith(b, i, a)

\* lines 1265-1268: the first key of opgroup_name_to_parent_groups that the
\* raw key is a part of; the keys are in the order of the traversal, which
\* is the order of creation
MatchingKey(par, names, raw_task_key) ==
  LET found == {k \in 1..Len(OpsGroups) : IsSubstring(raw_task_key, names[OpsGroups[k]])}
  IN IF found = {} THEN NotSet ELSE OpsGroups[CHOOSE k \in found : \A j \in found : k <= j]

\* lines 1031-1037: the predicate list of a condition group, by its name
ConditionRefs(names, name) ==
  LET groups == {g \in ConditionGroups : names[g] = name}
  IN IF groups = {} THEN <<>> ELSE <<[condition |-> CHOOSE g \in groups : TRUE]>>

\* lines 1263-1272: the when of one key of self.loops_pipeline
LoopWhen(par, names, loop) ==
  LET loop_task_key == LoopTaskKey(names[loop])
      raw_task_key == ReplaceFirst(loop_task_key, 1, task_name_prefix)
      key == MatchingKey(par, names, raw_task_key)
      parent_group == IF key = NotSet THEN <<>> ELSE GroupPath(par, names, key)
  IN IF parent_group = <<>> THEN <<>>
     ELSE ConditionRefs(names, parent_group[Len(parent_group) - 1])

IdleLoopWhen ==
  /\ hpc = "idle"
  /\ opsgroup_parent = <<>>
  /\ opsgroup_name = <<>>
  /\ loop_task_keys = {}
  /\ loops_when = <<>>

InitLoopWhen ==
  /\ hpc = "loops"
  /\ \E p2 \in {PipelineRoot, "K1"} :
       \E pl \in AncestorsOrSelf(("K1" :> PipelineRoot) @@ ("K2" :> p2), "K2") :
         \E pg \in AncestorsOrSelf(("K1" :> PipelineRoot) @@ ("K2" :> p2) @@ ("L" :> pl), "L") :
           opsgroup_parent = ("K1" :> PipelineRoot) @@ ("K2" :> p2) @@ ("L" :> pl) @@ ("G" :> pg)
  /\ \E n1 \in ConditionNames(<<"1">>), n2 \in ConditionNames(<<"2">>) :
       opsgroup_name = ("K1" :> n1) @@ ("K2" :> n2) @@ ("L" :> LoopName) @@ ("G" :> GraphName)
  /\ loop_task_keys = LoopsPipeline
  /\ loops_when = [l \in LoopsPipeline |-> NoWhen]

\* lines 1262-1272: the group found for the key has a condition as parent
LoopGetsWhen ==
  /\ hpc = "loops"
  /\ \E loop \in loop_task_keys :
       /\ LoopWhen(opsgroup_parent, opsgroup_name, loop) # <<>>
       /\ loops_when' = [loops_when EXCEPT ![loop] = LoopWhen(opsgroup_parent, opsgroup_name, loop)]
       /\ loop_task_keys' = loop_task_keys \ {loop}
       /\ hpc' = IF loop_task_keys = {loop} THEN "done" ELSE "loops"
  /\ UNCHANGED <<opsgroup_parent, opsgroup_name>>
  /\ UNCHANGED notLoopWhenVars

\* lines 1269-1271: no group found, or its parent has no predicates
LoopGetsNoWhen ==
  /\ hpc = "loops"
  /\ \E loop \in loop_task_keys :
       /\ LoopWhen(opsgroup_parent, opsgroup_name, loop) = <<>>
       /\ loop_task_keys' = loop_task_keys \ {loop}
       /\ hpc' = IF loop_task_keys = {loop} THEN "done" ELSE "loops"
  /\ UNCHANGED <<opsgroup_parent, opsgroup_name, loops_when>>
  /\ UNCHANGED notLoopWhenVars

NextLoopWhen == LoopGetsWhen \/ LoopGetsNoWhen

(***************************************************************************)
(* Nested condition groups (lines 1155-1250): the pairing of every         *)
(* condition with its nearest enclosing condition, and the when list of    *)
(* the tasks in nested condition groups.  A predicate is named by the      *)
(* condition whose evaluator its input reads.  A list object is named by   *)
(* the condition group for which lines 995-1001 built it.                  *)
(***************************************************************************)
NestedConditions == <<"condition-1", "condition-2", "condition-3">>
NestedConditionSet == Range(NestedConditions)
NestedTasks == <<"u1", "u2">>               \* task_refs, in list order
NestedLoop == "for-loop-4"
OperandKinds == {"literal", "reference"}

\* 'condition-' in name
IsConditionName(name) == name \in NestedConditionSet

\* the group directly around a group, the loop included
GroupAround(par, loop, g) ==
  IF g = NestedLoop THEN par["condition-2"]
  ELSE IF g = "condition-2" /\ loop THEN NestedLoop
  ELSE par[g]

\* lines 1196-1198: the nearest condition around a group, through the groups
\* that are not conditions
RECURSIVE most_recent_condition(_, _, _)
most_recent_condition(par, loop, g) ==
  LET around == GroupAround(par, loop, g)
  IN IF around = PipelineRoot THEN None
     ELSE IF IsConditionName(around) THEN around
     ELSE most_recent_condition(par, loop, around)

\* lines 360-377: the task list of the loop holds the condition below it and
\* every condition below that one
RECURSIVE InNestedLoop(_, _, _)
InNestedLoop(par, loop, g) ==
  /\ loop
  /\ g # PipelineRoot
  /\ g # NestedLoop
  /\ \/ g = "condition-2"
     \/ InNestedLoop(par, loop, par[g])

\* lines 1166-1181: one entry for every operand that is a PipelineParam
InputParams(kinds) == SelectSeq(kinds, LAMBDA k : k = "reference")

\* lines 1182-1192: the when of the evaluator of condition c, set in the loop
\* over input_params
EvaluatorWhen(par, loop, kinds, c) ==
  LET recent == most_recent_condition(par, loop, c)
  IN IF /\ InputParams(kinds[c]) # <<>>
        /\ recent # None
        /\ ~(InNestedLoop(par, loop, c) /\ ~InNestedLoop(par, loop, recent))
     THEN recent ELSE None

\* the list a when refers to; [] when there is none
ListOf(lists, ref) == IF ref = None THEN <<>> ELSE lists[ref]

\* lines 1226-1234: get_when_task: the inputs of the when of the task that
\* the input reads
get_when_task(lists, evals, input, depended_conditions) ==
  depended_conditions \o ListOf(lists, evals[input])

\* lines 1239-1245: the predicates of one ancestor
RECURSIVE AppendAncestor(_, _, _, _, _)
AppendAncestor(lists, evals, g, when_exps, depended_conditions) ==
  IF when_exps = <<>> THEN <<lists, depended_conditions>>
  ELSE LET when_exp == Head(when_exps)
           depended == get_when_task(lists, evals, when_exp, depended_conditions)
       IN AppendAncestor(
            IF when_exp \notin Range(depended)
            THEN [lists EXCEPT ![g] = Append(@, when_exp)] ELSE lists,
            evals, g, Tail(when_exps), depended)

\* lines 1236-1248: the while loop over the ancestors, from the group around
\* the group of the task upwards, as long as they are conditions
RECURSIVE WalkAncestors(_, _, _, _, _, _, _)
WalkAncestors(par, loop, lists, evals, g, ancestor, depended_conditions) ==
  IF ~IsConditionName(ancestor) THEN lists
  ELSE LET after == AppendAncestor(lists, evals, g, lists[ancestor], depended_conditions)
       IN WalkAncestors(par, loop, after[1], evals, g, GroupAround(par, loop, ancestor), after[2])

\* lines 1213-1248: the lists after the task in condition group g got its when
AttachedLists(par, loop, lists, evals, g) ==
  WalkAncestors(par, loop, lists, evals, g, GroupAround(par, loop, g),
                get_when_task(lists, evals, lists[g][1], <<>>))

IdleNested ==
  /\ npc = "idle"
  /\ condition_parent = <<>>
  /\ operand_kinds = <<>>
  /\ loop_around = FALSE
  /\ task_parent = <<>>
  /\ nested_lists = <<>>
  /\ evaluator_when = <<>>
  /\ task_when = <<>>
  /\ tasks_to_attach = <<>>

\* lines 995-1001 have built the list of predicates of every condition group
InitNested ==
  /\ npc = "pair"
  /\ \E p2 \in {PipelineRoot, "condition-1"}, p3 \in {PipelineRoot, "condition-1", "condition-2"} :
       condition_parent = ("condition-1" :> PipelineRoot) @@ ("condition-2" :> p2) @@
                          ("condition-3" :> p3)
  /\ operand_kinds \in [NestedConditionSet -> [1..2 -> OperandKinds]]
  /\ loop_around \in BOOLEAN
  /\ task_parent \in [Range(NestedTasks) -> NestedConditionSet \cup {PipelineRoot}]
  /\ nested_lists = [c \in NestedConditionSet |-> <<c>>]
  /\ evaluator_when = [c \in NestedConditionSet |-> None]
  /\ task_when = [t \in Range(NestedTasks) |-> None]
  /\ tasks_to_attach = NestedTasks

\* lines 1156-1206: the while loop over the groups pairs every condition with
\* its nearest enclosing condition
PairConditions ==
  /\ npc = "pair"
  /\ evaluator_when' = [c \in NestedConditionSet |->
                          EvaluatorWhen(condition_parent, loop_around, operand_kinds, c)]
  /\ npc' = "attach"
  /\ UNCHANGED <<condition_parent, operand_kinds, loop_around, task_parent, nested_lists,
                 task_when, tasks_to_attach>>
  /\ UNCHANGED notNestedVars

\* lines 1209-1248: the next task lies directly in a condition group
AttachTaskWhen ==
  /\ npc = "attach"
  /\ LET task == Head(tasks_to_attach)
         g == task_parent[task]
     IN /\ IsConditionName(g)
        /\ task_when' = [task_when EXCEPT ![task] = g]
        /\ nested_lists' = AttachedLists(condition_parent, loop_around, nested_lists,
                                         evaluator_when, g)
  /\ tasks_to_attach' = Tail(tasks_to_attach)
  /\ npc' = IF Tail(tasks_to_attach) = <<>> THEN "done" ELSE "attach"
  /\ UNCHANGED <<condition_parent, operand_kinds, loop_around, task_parent, evaluator_when>>
  /\ UNCHANGED notNestedVars

\* lines 1209-1213: the next task lies in no condition group
AttachNoWhen ==
  /\ npc = "attach"
  /\ ~IsConditionName(task_parent[Head(tasks_to_attach)])
  /\ tasks_to_attach' = Tail(tasks_to_attach)
  /\ npc' = IF Tail(tasks_to_attach) = <<>> THEN "done" ELSE "attach"
  /\ UNCHANGED <<condition_parent, operand_kinds, loop_around, task_parent, nested_lists,
                 evaluator_when, task_when>>
  /\ UNCHANGED notNestedVars

NextNested == PairConditions \/ AttachTaskWhen \/ AttachNoWhen

\* every part of the compiler but one is at rest
IdleExcept(part) ==
  /\ part # "Write" => IdleWrite
  /\ part # "Deps" => IdleDeps
  /\ part # "Rewrite" => IdleRewrite
  /\ part # "When" => IdleWhen
  /\ part # "Assemble" => IdleAssemble
  /\ part # "Inline" => IdleInline
  /\ part # "Params" => IdleParams
  /\ part # "Sanitize" => IdleSanitize
  /\ part # "Workspace" => IdleWorkspace
  /\ part # "Validate" => IdleValidate
  /\ part # "Lower" => IdleLower
  /\ part # "LoopWhen" => IdleLoopWhen
  /\ part # "Nested" => IdleNested

StartWrite == InitWrite /\ IdleExcept("Write")

SpecWrite == StartWrite /\ [][NextWrite]_vars

StartDeps == InitDeps /\ IdleExcept("Deps")

SpecDeps == StartDeps /\ [][NextDeps]_vars

StartRewrite == InitRewrite /\ IdleExcept("Rewrite")

SpecRewrite == StartRewrite /\ [][NextRewrite]_vars

StartWhen == InitWhen /\ IdleExcept("When")

SpecWhen == StartWhen /\ [][NextWhen]_vars

StartAssemble == InitAssemble /\ IdleExcept("Assemble")

SpecAssemble == StartAssemble /\ [][NextAssemble]_vars

StartInline == InitInline /\ IdleExcept("Inline")

SpecInline == StartInline /\ [][NextInline]_vars

StartParams == InitParams /\ IdleExcept("Params")

SpecParams == StartParams /\ [][NextParams]_vars

StartSanitize == InitSanitize /\ IdleExcept("Sanitize")

SpecSanitize == StartSanitize /\ [][NextSanitize]_vars

StartWorkspace == InitWorkspace /\ IdleExcept("Workspace")

SpecWorkspace == StartWorkspace /\ [][NextWorkspace]_vars

StartValidate == InitValidate /\ IdleExcept("Validate")

SpecValidate == StartValidate /\ [][NextValidate]_vars

StartLower == InitLower /\ IdleExcept("Lower")

SpecLower == StartLower /\ [][NextLower]_vars

StartLoopWhen == InitLoopWhen /\ IdleExcept("LoopWhen")

SpecLoopWhen == StartLoopWhen /\ [][NextLoopWhen]_vars

StartNested == InitNested /\ IdleExcept("Nested")

SpecNested == StartNested /\ [][NextNested]_vars

\* the while loop of lines 1520-1531 runs on one thread and takes its next
\* iteration whenever there is one
SpecWhenLive == StartWhen /\ [][NextWhen]_vars /\ WF_vars(NextWhen)

(***************************************************************************)
(* Claims about the emission path.                                         *)
(***************************************************************************)

\* C1: when the naming validation of the main document fails, no output file
\* has been written (the validation comes before any emission).
C1_NoFileBeforeNamingFailure == raised \in NamingErrors => files = {}

\* C2: when compilation fails on an unresolved reference in the serialized
\* main document, no output file at all has been written, also with
\* resource_in_separate_yaml.
C2_NoFileOnUnresolvedMain ==
  (raised = ErrUnresolved /\ lastCall.path = package_path) => files = {}

\* C3 as stated: a document whose serialized form holds a leftover reference
\* always fails with the internal-compiler-error message.
C3_UnresolvedAlwaysInternalError ==
  HasUnresolved(lastCall.text) => lastCall.result \in InternalCompilerErrors

\* C3 amended: a document whose serialized form holds a leftover reference is
\* never returned or written; _write_workflow fails with the
\* internal-compiler-error message unless the text also holds an unsupported
\* Argo variable, which is reported instead.
C3_UnresolvedNeverEmitted ==
  HasUnresolved(lastCall.text) =>
    /\ lastCall.result \in {ErrUnresolved, ErrArgo}
    /\ (lastCall.result = ErrUnresolved <=> unsupported_vars(lastCall.text) = {})
    /\ lastCall.path \notin files
    /\ \A k \in 1..Len(loop_package_annotations) : loop_package_annotations[k] # lastCall.text
    /\ raised = lastCall.result

C3_Witness == HasUnresolved(lastCall.text) /\ lastCall.result = ErrUnresolved /\ wpc = "failed"

(***************************************************************************)
(* Claims about dependency derivation.                                     *)
(***************************************************************************)
ParentOf(e) == IF e = ROOT THEN None ELSE parent[e]

Unknown(name) == name \notin Tasks \cup Groups

\* C4 as stated: every referenced upstream name found neither among the tasks
\* nor among the groups aborts compilation; none is passed over.
C4_NoReferenceSkipped ==
  \A r \in dep_log : Unknown(r.up) => r.outcome = "raised" /\ dpc = "failed"

\* C4 amended: an unknown upstream name aborts compilation with an error,
\* except that a name referenced by a task and holding "for-loop" is passed
\* over without recording a dependency; an unknown name in a group's
\* dependency list always aborts.
C4_UnknownAbortsUnlessForLoop ==
  /\ \A r \in dep_log :
       Unknown(r.up) =>
         IF r.pass = "ops" /\ Contains(r.up, "for-loop")
         THEN r.outcome = "skipped" /\ \A e \in Entities : r.up \notin dependencies[e]
         ELSE r.outcome = "raised" /\ dpc = "failed" /\ dep_error = ErrCannotFind
  /\ dpc \in {"groups", "done"} =>
       \A t \in Tasks : \A u \in UpstreamOfOp(t) : Unknown(u) => Contains(u, "for-loop")
  /\ dpc = "done" => \A g \in Groups : \A u \in UpstreamOfGroup(g) : ~Unknown(u)

C4_Witness ==
  /\ dpc = "failed"
  /\ \E r \in dep_log : r.up = LOOP_GHOST /\ r.outcome = "skipped"
  /\ \E r \in dep_log : r.up \in {GHOST, LOOP_GHOST} /\ r.pass = "groups" /\ r.outcome = "raised"

C6_UncommonAncestors ==
  work # <<>> =>
    \A a \in Entities :
      LET b == Head(work)
          r == _get_uncommon_ancestors(parent, a, b)
          pa == ancestorPath(parent, a)
          pb == ancestorPath(parent, b)
      IN /\ \E k \in 1..Len(pa) : pa = SubSeq(pa, 1, k) \o r[1] /\ pb = SubSeq(pa, 1, k) \o r[2]
         /\ (r[1] # <<>> /\ r[2] # <<>>) =>
              /\ r[1][1] # r[2][1]
              /\ ParentOf(r[1][1]) = ParentOf(r[2][1])
         /\ _get_uncommon_ancestors(parent, b, a) = <<r[2], r[1]>>

C6_Witness ==
  \E e \in dep_log :
    /\ e.outcome = "dep"
    /\ LET r == _get_uncommon_ancestors(parent, e.up, e.down)
       IN Len(r[1]) >= 2 /\ Len(r[2]) >= 2

(***************************************************************************)
(* Claims about reference rewriting.                                       *)
(***************************************************************************)
\* what each piece of the string has to become: a reference its own
\* substitution, text itself
Expected(ps) ==
  Flatten([k \in 1..Len(ps) |->
             IF ps[k].kind = "ref" THEN Substitution(<<ps[k].op_name, ps[k].name>>)
             ELSE ps[k].text])

References(ps) == {k \in 1..Len(ps) : ps[k].kind = "ref"}

\* C7: rewriting the result of process_pipelineparam again returns that result
\* unchanged, for every input string.
C7_Idempotent == rpc = "twice" => twice = once

\* C8: in a string with two or more references, adjacent or separated by
\* text, every reference is replaced by its own substitution and the text
\* outside the references is unchanged.
C8_EachReferenceReplaced ==
  (rpc \in {"once", "twice"} /\ Cardinality(References(pieces)) >= 2) =>
    once = Expected(pieces)

\* C9: in every rewriting place a reference with an empty producer becomes
\* $(params.<name>) with the name unchanged, and a reference with a non-empty
\* producer becomes a read-result substitution whose parameter name is the
\* sanitized name.
C9_ProducerDecidesSubstitution ==
  /\ (rpc = "rewritten" /\ rewritten.place # "regular task") =>
       IF param.op_name = <<>>
       THEN rewritten.value = <<PARAMS>> \o param.name \o <<RPAR>>
       ELSE rewritten.value \in
              {<<TASKS>> \o o \o <<RESULTS>> \o SanitizeCap(param.name) \o <<RPAR>> :
                 o \in {param.op_name, SanitizeName(param.op_name)}}
  /\ (rpc \in {"once", "twice"} /\ Len(pieces) = 1 /\ pieces[1].kind = "ref") =>
       LET r == pieces[1]
       IN IF r.op_name = <<>>
          THEN once = <<PARAMS>> \o r.name \o <<RPAR>>
          ELSE once = <<TASKS>> \o SanitizeName(r.op_name) \o <<RESULTS>> \o
                      SanitizeCap(r.name) \o <<RPAR>>

(***************************************************************************)
(* Claims about when propagation.                                          *)
(***************************************************************************)
\* the predicates a task carries because of the condition group around it
OwnPredicates(t) == IF in_condition[t] = "none" THEN {} ELSE {in_condition[t]}

NoDuplicates(seq) == \A i \in 1..Len(seq) : \A j \in 1..Len(seq) : seq[i] = seq[j] => i = j

\* C10: after propagation over an acyclic runAfter graph whose tasks are all
\* in one loop scope, the when list of every task with runAfter edges holds
\* its own predicates and the predicates of every task reachable through
\* runAfter, each exactly once, whatever the order of the task list.
C10_WhenIsUnionOfReachable ==
  (qpc = "done" /\ Acyclic(runAfter) /\ loop_task_list = {}) =>
    \A t \in WTasks :
      runAfter[t] # {} =>
        LET mine == WhenOf(when_ref, when_lists, t)
        IN /\ Range(mine) = OwnPredicates(t) \cup
                            UNION {OwnPredicates(u) : u \in Reach(runAfter, t)}
           /\ NoDuplicates(mine)

\* the tasks that lines 1516-1519 put into the queue
WithRunAfter == {t \in WTasks : runAfter[t] # {}}

\* C11: for every runAfter graph, cyclic ones included, the queue loop comes
\* to an end: the queue becomes empty, no task is ever populated twice, and at
\* the end every task with runAfter edges has been populated.
C11_QueueLoopTerminates ==
  /\ [](NoDuplicates(populated) /\ Range(populated) \subseteq WithRunAfter)
  /\ <>[](qpc = "done" /\ task_queue = <<>> /\ Range(populated) = WithRunAfter)

C11_Witness ==
  /\ qpc = "done"
  /\ ~Acyclic(runAfter)
  /\ Len(populated) >= 3
  /\ \E t \in WTasks : visited_tasks[t] # -1

\* C12: over an acyclic runAfter graph, whenever a task is populated none of
\* its runAfter predecessors is still waiting in the queue.
C12_PopulatedAfterQueuedPredecessors ==
  [][(Acyclic(runAfter) /\ Len(populated') = Len(populated) + 1) =>
       /\ populated'[Len(populated')] = Head(task_queue)
       /\ \A k \in 1..Len(task_queue') :
            task_queue'[k] \notin runAfter[Head(task_queue)]]_vars

C12_Witness ==
  /\ Acyclic(runAfter)
  /\ \E t \in Range(populated) :
       /\ visited_tasks[t] # -1
       /\ \E u \in runAfter[t] : u \in Range(populated) /\ visited_tasks[u] # -1

C19_PredicateOnlyFromOwnGroup ==
  qpc = "done" =>
    \A t \in WTasks :
      IF in_condition[t] # "none"
      THEN in_condition[t] \in Range(WhenOf(when_ref, when_lists, t))
      ELSE WhenOf(when_ref, when_lists, t) = <<>>

\* C19, amended: once the predicates are attached, every task directly inside
\* a condition group carries the predicate on the result of that group's
\* evaluator; a task that is not directly inside a condition group carries no
\* predicate until it is populated from its runAfter predecessors, and none
\* at all when it has no runAfter edges.
C19_PredicateFromOwnGroupOrRunAfter ==
  qpc # "attach" =>
    \A t \in WTasks :
      IF in_condition[t] # "none"
      THEN in_condition[t] \in Range(WhenOf(when_ref, when_lists, t))
      ELSE (runAfter[t] = {} \/ t \notin Range(populated)) =>
             WhenOf(when_ref, when_lists, t) = <<>>

C19_Witness ==
  /\ qpc = "done"
  /\ in_condition["t1"] = "condition-1"
  /\ WhenOf(when_ref, when_lists, "t1") = <<"condition-1">>
  /\ in_condition["t2"] = "none"
  /\ runAfter["t2"] = {}
  /\ in_condition["t3"] = "none"
  /\ "t1" \in runAfter["t3"]
  /\ WhenOf(when_ref, when_lists, "t3") = <<"condition-1">>

(***************************************************************************)
(* Claims about the parameters of regular tasks.                           *)
(***************************************************************************)

\* C20: the parameter of a regular task that is supplied by an output of an
\* upstream task becomes the read-result reference that names the producer and
\* the output, whatever the names of the pipeline parameters and loop
\* arguments are.
C20_UpstreamOutputReadsResult ==
  (rpc = "rewritten" /\ rewritten.place = "regular task" /\ param.op_name # <<>>) =>
    rewritten.value = <<TASKS>> \o param.op_name \o <<RESULTS>> \o param.name \o <<RPAR>>

(***************************************************************************)
(* Claims about the inlining of the custom task documents.                 *)
(***************************************************************************)
\* the tasks that exist: a document without pipelineSpec has none
ExistingTasks ==
  Range(DocTasks("main")) \cup
  UNION {Range(DocTasks(cr)) : cr \in CrNames \ without_pipeline_spec}

\* C15: a reference by name to a document that a recursive task refers to is
\* never replaced by the document's body, in neither step, and the document
\* stays in the final list of standalone documents.
C15_RecursiveNeverInlined ==
  \A name \in recursive_tasks_names :
    /\ name \notin Range(inlined_as_taskSpec)
    /\ \A t \in InlineTasks : taskSpec[t] # name
    /\ ipc = "done" => name \in Range(custom_opsgroup_crs)

C15_Witness ==
  /\ ipc = "done"
  /\ tekton_inline_spec
  /\ recursive_tasks_names = {"cr2"}
  /\ taskRef["m1"] = "cr2"
  /\ taskRef["b"] = "cr2"
  /\ taskSpec["m2"] = "cr1"
  /\ custom_opsgroup_crs = <<"cr2", "cr3">>

\* C16: with inlining enabled, once both steps are done, no task of the main
\* document, of a standalone document or of an inlined body refers by name to
\* a document that is not in the final list of standalone documents.
C16_NoReferenceToOmitted ==
  (ipc = "done" /\ tekton_inline_spec) =>
    \A name \in CrNames \ Range(custom_opsgroup_crs) :
      \A t \in ExistingTasks : taskRef[t] # name

C16_Witness ==
  /\ ipc = "done"
  /\ tekton_inline_spec
  /\ taskSpec["a"] = "cr2"
  /\ taskSpec["b"] = "cr1"
  /\ taskSpec["m1"] = "cr1"
  /\ taskSpec["c"] = "cr1"
  /\ custom_opsgroup_crs = <<"cr3">>

(***************************************************************************)
(* Claims about the assembly of the pipeline document.                     *)
(***************************************************************************)

\* C14: once the lists are assembled, every task reference of an exit handler
\* is in the finally list and not in the main list, and every other task
\* reference is in the main list and not in the finally list.
C14_ExitHandlersInFinally ==
  apc = "assembled" =>
    \A name \in Range(task_refs) :
      IF name \in exit_handlers
      THEN name \in Range(finally_tasks) /\ name \notin Range(pipeline_tasks)
      ELSE name \in Range(pipeline_tasks) /\ name \notin Range(finally_tasks)

C14_Witness ==
  /\ apc = "assembled"
  /\ finally_tasks = <<OpE>>
  /\ OpT \in Range(pipeline_tasks)
  /\ OpK \in Range(pipeline_tasks)

\* the value an operand of a condition stands for in the pipeline document
ResolvedOperand(operand) ==
  IF operand.type = "PipelineParam" THEN process_parameter(operand) ELSE operand.value

\* C17: once the operands are resolved, parameter operand1 of the evaluator
\* holds the resolved value of the first operand and operand2 that of the
\* second, whichever of them are constants or references.
C17_OperandsInOrder ==
  apc \in {"resolved", "assembled"} =>
    /\ condition_task_ref.params[1] = ResolvedOperand(condition.operand1)
    /\ condition_task_ref.params[2] = ResolvedOperand(condition.operand2)

IsCustomOutput(operand) == operand.type = "PipelineParam" /\ operand.op_name \in custom_ops

ComparesCustomOutput ==
  /\ condition.operator \in {"==", "!="}
  /\ IsCustomOutput(condition.operand1) \/ IsCustomOutput(condition.operand2)

\* C18: a condition with == or != and an operand that is the output of a
\* custom task gets no evaluator in the main list, and its when-predicate
\* compares the two operands directly ('in' for ==, 'notin' for !=); every
\* other condition gets exactly one evaluator.
C18_CustomOutputComparedDirectly ==
  /\ ComparesCustomOutput => apc # "failed"
  /\ apc = "assembled" =>
       IF ComparesCustomOutput
       THEN /\ ConditionName \notin Range(pipeline_tasks)
            /\ condition_refs =
                 << [input |-> ResolvedOperand(condition.operand1),
                     operator |-> IF condition.operator = "==" THEN "in" ELSE "notin",
                     values |-> <<ResolvedOperand(condition.operand2)>>] >>
       ELSE Len(SelectSeq(pipeline_tasks, LAMBDA name : name = ConditionName)) = 1

(***************************************************************************)
(* Claims about the parameters of a group.                                 *)
(***************************************************************************)

\* C21: once a graph, loop or add-on group is lowered, its parameter list
\* holds every parameter name at most once.
C21_ParameterNamesUnique ==
  ppc # "group" => NoRepeat([k \in 1..Len(group_params) |-> group_params[k].name])

(***************************************************************************)
(* Claims about the sanitization of the op names.                          *)
(***************************************************************************)

\* C22: when two ops have names that are equal after sanitization, the
\* sanitization ends with an error; no op is dropped from pipeline.ops or
\* replaced by another op of the same sanitized name.
C22_CollidingNamesRejected ==
  spc = "sanitized" =>
    /\ \A i \in 1..Len(dsl_ops) : \A j \in 1..Len(dsl_ops) :
         SanitizeName(dsl_ops[i]) = SanitizeName(dsl_ops[j]) => i = j
    /\ \A k \in 1..Len(dsl_ops) : \E i \in 1..Len(sanitized_ops) : sanitized_ops[i].op = k

(***************************************************************************)
(* Claims about workspaces.                                                *)
(***************************************************************************)

\* C23: the compilation goes on past the injection of the workspaces only
\* when every declared workspace is used by a task and every used workspace
\* is declared; otherwise it fails.
C23_UnusedWorkspaceRejected ==
  kpc = "injected" =>
    /\ pipeline_workspaces \subseteq template_workspaces
    /\ template_workspaces \subseteq pipeline_workspaces

(***************************************************************************)
(* Claims about the validations of one process.                            *)
(***************************************************************************)

\* C24: the outcome of a validation depends on the validated document only:
\* a document whose names all comply is accepted, whatever was validated
\* before.
C24_ValidationDependsOnDocumentOnly ==
  validations > 0 =>
    (validation = "RuntimeError" <=> non_k8s_names(document) # {})

(***************************************************************************)
(* Claims about the lowering of the groups.                                *)
(***************************************************************************)

\* C25: once _get_dependencies has returned, the lowering of a group, in
\* any order, only reads the dependency map: no step of the lowering adds a
\* dependency to it or removes one from it.
C25_LoweringOnlyReads == [][dag_dependencies' = dag_dependencies]_vars

\* C25 (as the code has it): the lowering of a condition, a loop or an
\* extension group leaves the dependency map as it is; the lowering of a
\* graph removes the name of the graph from every entry of the map and
\* changes nothing else; no lowering adds a dependency.
C25_OnlyGraphLoweringRemovesItsName ==
  [][IF GraphGroup \in to_lower /\ GraphGroup \notin to_lower'
     THEN dag_dependencies' = [d \in LoweredEntities |-> dag_dependencies[d] \ {GraphGroup}]
     ELSE dag_dependencies' = dag_dependencies]_vars

\* the graph has been lowered, entities ran after it, and the map no longer
\* says so
C25_Witness ==
  /\ lpc \in {"lowering", "lowered"}
  /\ GraphGroup \notin to_lower
  /\ lowered_depends[GraphGroup] # {}
  /\ \A d \in LoweredEntities : GraphGroup \notin dag_dependencies[d]

\* the elements of an upstream tail that are not condition groups
NotConditions(upstream_groups) == SelectSeq(upstream_groups, LAMBDA g : ~IsCondition(g))

\* C26: every reference of a task or group d to a known upstream entity u
\* whose upstream tail holds an entity that is not a condition group records
\* the dependency of the first element of d's downstream tail on the first
\* such entity, whatever the names of the tasks are; and the map holds no
\* dependency but these.
C26_ReferenceYieldsDependency ==
  /\ \A l \in dep_log :
       l.outcome \in {"dep", "nodep"} =>
         LET tails == _get_uncommon_ancestors(parent, l.up, l.down)
             ups == NotConditions(tails[1])
         IN ups # <<>> /\ tails[2] # <<>> =>
              /\ l.outcome = "dep"
              /\ ups[1] \in dependencies[tails[2][1]]
  /\ dpc # "idle" =>
       \A d \in Entities : \A u \in dependencies[d] :
         \E l \in dep_log :
           LET tails == _get_uncommon_ancestors(parent, l.up, l.down)
               ups == NotConditions(tails[1])
           IN /\ l.outcome = "dep"
              /\ ups # <<>> /\ tails[2] # <<>>
              /\ ups[1] = u /\ tails[2][1] = d

(***************************************************************************)
(* Claims about the when-predicates of the loops and graphs.               *)
(***************************************************************************)

\* C30: a loop or graph that the loop of line 1262 has visited holds as its
\* when the predicate list of the group that encloses it immediately, when
\* that group is a condition, and no when otherwise; for every naming of the
\* groups.
C30_LoopWhenFromOwnParent ==
  hpc # "idle" =>
    \A loop \in LoopsPipeline \ loop_task_keys :
      loops_when[loop] =
        IF opsgroup_parent[loop] \in ConditionGroups
        THEN <<[condition |-> opsgroup_parent[loop]]>>
        ELSE NoWhen

\* C28: a step that adds predicates to the when list of one task leaves the
\* when list of every other task and the list of predicates of every
\* condition group (which is also the when list of the evaluators below the
\* group) as they were, and no two tasks hold the same list object.
C28_AddingLeavesOthersUnchanged ==
  [][qpc = "queue" =>
       /\ \A t \in WTasks \ {Head(task_queue)} :
            WhenOf(when_ref', when_lists', t) = WhenOf(when_ref, when_lists, t)
       /\ \A c \in Conditions : when_lists'[ConditionList(c)] = when_lists[ConditionList(c)]
       /\ \A t \in WTasks : \A u \in WTasks \ {t} : when_ref[t] # 0 => when_ref[t] # when_ref[u]]_vars

(***************************************************************************)
(* Claims about nested condition groups.                                   *)
(***************************************************************************)

\* C27: once the conditions are paired, the evaluator of every condition
\* that lies in another condition, both in the same loop, holds the
\* predicate of the nearest condition around it, whatever the kinds of its
\* operands are; the evaluator of a condition that lies in no condition has
\* no when.
C27_EvaluatorCarriesEnclosing ==
  npc \in {"attach", "done"} =>
    \A c \in NestedConditionSet :
      LET recent == most_recent_condition(condition_parent, loop_around, c)
      IN /\ recent = None => evaluator_when[c] = None
         /\ (/\ recent # None
             /\ InNestedLoop(condition_parent, loop_around, c) =
                  InNestedLoop(condition_parent, loop_around, recent)) =>
              recent \in Range(ListOf(nested_lists, evaluator_when[c]))

\* C29: the when list of no task holds the same predicate twice, for every
\* nesting of the condition groups and every number of tasks in a group.
C29_NoPredicateTwice ==
  npc = "done" =>
    \A t \in Range(NestedTasks) : NoRepeat(ListOf(nested_lists, task_when[t]))

====
